---- MODULE Spec2Model ----
(***************************************************************************)
(* Model of the hierarchy editor of src/src/App.vue: the canonical flat    *)
(* list config.servers, the derived forest serverTree, the add/edit modal  *)
(* with saveServer, removeServer / removeAllServers behind a confirm       *)
(* dialog, the import path parseAndSetConfig and the drag-and-drop path    *)
(* that ends in flattenTreeAndSync.                                        *)
(*                                                                         *)
(* A server is modelled by the four fields the hierarchy logic reads and   *)
(* writes: ip, parent_ip, server_type and priority.  The display fields    *)
(* (comment, tag, colours, ignore_in_list, selectedPreset) are copied      *)
(* around by the code but never read by it, and are left out.  A forest    *)
(* node carries the same four fields plus children.                        *)
(***************************************************************************)
EXTENDS Integers, Sequences, FiniteSets, TLC

(***************************************************************************)
(* Value domains                                                           *)
(***************************************************************************)
\* The ip values servers are drawn from.
IPs == {"a", "b", "c"}

\* What the user can type into the ip field of the modal: an ip, nothing,
\* blanks only, or an ip with surrounding blanks.
IpInputs == IPs \cup {"", "  ", " a "}

\* String.prototype.trim on the strings of IpInputs.
Trim(s) == CASE s = "  " -> ""
             [] s = " a " -> "a"
             [] OTHER -> s

\* JavaScript null (editingServerIp in add mode) and undefined (a missing
\* server_type or priority of an imported entry).
Null == "<null>"
NoType == "<undefined>"
NoPriority == -1

SERVER_TYPE == [STANDALONE |-> "standalone", PARENT |-> "parent", CHILD |-> "child"]
MODAL_MODE == [ADD |-> "add", EDIT |-> "edit"]

\* Largest number of servers the add dialog is allowed to grow the list to.
MaxServers == 3

\* Longest list a function is applied to on its own.
MaxProbeLen == 3

\* The watchers startWatch registers in one behaviour.
MaxWatchers == 2

(***************************************************************************)
(* Sequence helpers                                                        *)
(***************************************************************************)
Range(s) == {s[i] : i \in 1..Len(s)}

Max(S) == CHOOSE x \in S : \A y \in S : y <= x
Min(S) == CHOOSE x \in S : \A y \in S : x <= y

\* The elements of the index set S, ascending, as a sequence.
RECURSIVE SortedIdx(_)
SortedIdx(S) == IF S = {} THEN <<>> ELSE <<Min(S)>> \o SortedIdx(S \ {Min(S)})

\* Array.prototype.find / findIndex on the ip key: the first match, 0 if none.
FindIndex(list, ip) ==
    LET hits == {i \in 1..Len(list) : list[i].ip = ip}
    IN IF hits = {} THEN 0 ELSE Min(hits)

\* s with the element at index i removed (splice(i, 1)).
RemoveAt(s, i) == SubSeq(s, 1, i - 1) \o SubSeq(s, i + 1, Len(s))

\* s with an element inserted so that it ends up at index i.
InsertAt(s, i, e) == SubSeq(s, 1, i - 1) \o <<e>> \o SubSeq(s, i, Len(s))

\* JavaScript truthiness of a string.
Truthy(s) == s # ""

(***************************************************************************)
(* Records                                                                 *)
(***************************************************************************)
FlatServer(ip, parent_ip, server_type, priority) ==
    [ip |-> ip, parent_ip |-> parent_ip, server_type |-> server_type, priority |-> priority]

Node(ip, parent_ip, server_type, priority, children) ==
    [ip |-> ip, parent_ip |-> parent_ip, server_type |-> server_type,
     priority |-> priority, children |-> children]

\* const { children, ...flatServer } = server
StripChildren(n) == FlatServer(n.ip, n.parent_ip, n.server_type, n.priority)

(***************************************************************************)
(* buildTree: flat list -> forest                                          *)
(***************************************************************************)
\* map[ip]: the index of the copy the map holds for ip.  Every copy is
\* stored under its ip in list order, so a later copy replaces an earlier
\* one with the same ip.  0 when no server has that ip.
MapIndex(flatList, ip) ==
    LET hits == {i \in 1..Len(flatList) : flatList[i].ip = ip}
    IN IF hits = {} THEN 0 ELSE Max(hits)

\* The index of the copy server j is pushed under, 0 when j goes to the root
\* level (no parent_ip, or a parent_ip the map does not know).
ParentIndex(flatList, j) ==
    IF Truthy(flatList[j].parent_ip) THEN MapIndex(flatList, flatList[j].parent_ip) ELSE 0

\* Children pushed in the reverse of list order.
ChildIndicesReversed(flatList, k) ==
    LET kids == SortedIdx({j \in 1..Len(flatList) : ParentIndex(flatList, j) = k})
    IN [i \in 1..Len(kids) |-> kids[Len(kids) + 1 - i]]

\* The indices pushed to the children of copy k, in list order.
ChildIndices(flatList, k) ==
    SortedIdx({j \in 1..Len(flatList) : ParentIndex(flatList, j) = k})

\* The copy of server k as it stands when buildTree returns, with the
\* children pushed to it.  Only called for copies below a root, where the
\* parent links cannot loop.
RECURSIVE TreeNode(_, _)
TreeNode(flatList, k) ==
    LET server == flatList[k]
        kids == ChildIndices(flatList, k)
        children == [i \in 1..Len(kids) |-> TreeNode(flatList, kids[i])]
    IN IF Truthy(server.parent_ip)
       THEN IF MapIndex(flatList, server.parent_ip) # 0
            THEN Node(server.ip, server.parent_ip, "child", server.priority, children)
            ELSE Node(server.ip, "", "standalone", server.priority, children)
       ELSE Node(server.ip, server.parent_ip, server.server_type, server.priority, children)

\* The keys the object literal {} of map answers without holding a copy
\* for them: the properties it inherits.  One of them is modelled.
InheritedKeys == {"constructor"}

\* map[server.parent_ip] is truthy without being a copy: parent.children is
\* undefined and the push to it throws a TypeError.
BuildTreeThrows(flatList) ==
    \E j \in 1..Len(flatList) :
        /\ Truthy(flatList[j].parent_ip)
        /\ MapIndex(flatList, flatList[j].parent_ip) = 0
        /\ flatList[j].parent_ip \in InheritedKeys

\* The entries of flatList after buildTree: the forEach assigns to the
\* copies { ...server, children: [] }, the entries stay as they were.
FlatListAfterBuildTree(flatList) == flatList

\* The forest buildTree returns when it does not throw.
buildTree(flatList) ==
    LET roots == SortedIdx({k \in 1..Len(flatList) : ParentIndex(flatList, k) = 0})
    IN [i \in 1..Len(roots) |-> TreeNode(flatList, roots[i])]

(***************************************************************************)
(* flattenTreeAndSync: forest -> flat list                                 *)
(***************************************************************************)
\* A flattening that keeps the server_type the tree node carries.
FlattenTypeAsStored(server, parentIp) == server.server_type

\* The server_type traverse assigns to a node visited below parentIp.
FlattenType(server, parentIp) ==
    IF Truthy(parentIp) THEN "child"
    ELSE IF Len(server.children) > 0 THEN "parent"
    ELSE "standalone"

\* traverse(nodes, parentIp) with the running priorityCounter made explicit:
\* the entries pushed to newFlatList for nodes, in push order.
RECURSIVE traverse(_, _, _)
traverse(nodes, parentIp, priorityCounter) ==
    IF nodes = <<>> THEN <<>>
    ELSE LET server == Head(nodes)
             flatServer == FlatServer(server.ip, parentIp, FlattenType(server, parentIp),
                                      (priorityCounter + 1) * 10)
             below == traverse(server.children, server.ip, priorityCounter + 1)
         IN <<flatServer>> \o below
              \o traverse(Tail(nodes), parentIp, priorityCounter + 1 + Len(below))

\* A flattening that numbers nothing.
flattenTreeUnnumbered(tree) ==
    [i \in 1..Len(traverse(tree, "", 0)) |->
        [traverse(tree, "", 0)[i] EXCEPT !.priority = NoPriority]]

flattenTree(tree) == traverse(tree, "", 0)

(***************************************************************************)
(* Computed properties and the cycle detector                              *)
(***************************************************************************)
\* potentialParentServers: the servers the parent dropdown offers.
potentialParentServers(list) ==
    SelectSeq(list, LAMBDA s : s.server_type = SERVER_TYPE.PARENT
                               \/ s.server_type = SERVER_TYPE.STANDALONE)

\* The while loop of checkForCircularDependency: currentIp is the ip being
\* looked at (Null stands for undefined), visited the ips seen so far.
RECURSIVE CycleWalk(_, _, _)
CycleWalk(list, currentIp, visited) ==
    IF currentIp = Null \/ ~Truthy(currentIp) THEN FALSE
    ELSE IF currentIp \in visited THEN TRUE
    ELSE LET k == FindIndex(list, currentIp)
         IN CycleWalk(list, IF k # 0 THEN list[k].parent_ip ELSE Null,
                      visited \cup {currentIp})

\* A detector that looks one link up from the new parent only.
checkDirectParentOnly(list, serverIp, newParentIp) ==
    LET k == FindIndex(list, newParentIp)
    IN Truthy(newParentIp) /\ serverIp # newParentIp
       /\ k # 0 /\ list[k].parent_ip = serverIp

checkForCircularDependency(list, serverIp, newParentIp) ==
    IF ~Truthy(newParentIp) \/ serverIp = newParentIp THEN FALSE
    ELSE CycleWalk(list, newParentIp, {serverIp})

(***************************************************************************)
(* saveServer                                                              *)
(***************************************************************************)
\* A validation block without the empty-ip check.
SaveVerdictNoEmptyCheck(list, mode, editingIp, server) ==
    LET newIp == Trim(server.ip)
        isIpChanged == newIp # editingIp
    IN IF isIpChanged /\ \E i \in 1..Len(list) : list[i].ip = newIp
       THEN "duplicate_ip"
       ELSE IF Truthy(server.parent_ip)
               /\ mode = MODAL_MODE.EDIT /\ Len(server.children) > 0
            THEN "parent_child"
       ELSE IF Truthy(server.parent_ip)
               /\ checkForCircularDependency(
                      list, IF editingIp # Null /\ Truthy(editingIp) THEN editingIp ELSE newIp,
                      server.parent_ip)
            THEN "circular"
       ELSE "ok"

\* A validation block without the parent-cannot-become-child check.
SaveVerdictNoParentCheck(list, mode, editingIp, server) ==
    LET newIp == Trim(server.ip)
        isIpChanged == newIp # editingIp
    IN IF newIp = "" THEN "empty_ip"
       ELSE IF isIpChanged /\ \E i \in 1..Len(list) : list[i].ip = newIp
            THEN "duplicate_ip"
       ELSE IF Truthy(server.parent_ip)
               /\ checkForCircularDependency(
                      list, IF editingIp # Null /\ Truthy(editingIp) THEN editingIp ELSE newIp,
                      server.parent_ip)
            THEN "circular"
       ELSE "ok"

\* A validation block without the duplicate-ip check.
SaveVerdictNoDuplicateCheck(list, mode, editingIp, server) ==
    LET newIp == Trim(server.ip)
    IN IF newIp = "" THEN "empty_ip"
       ELSE IF Truthy(server.parent_ip)
               /\ mode = MODAL_MODE.EDIT /\ Len(server.children) > 0
            THEN "parent_child"
       ELSE IF Truthy(server.parent_ip)
               /\ checkForCircularDependency(
                      list, IF editingIp # Null /\ Truthy(editingIp) THEN editingIp ELSE newIp,
                      server.parent_ip)
            THEN "circular"
       ELSE "ok"

\* A seed of the cycle walk that is the ip typed into the form.
CycleSeedTypedIp(editingIp, newIp) == newIp

\* editingServerIp.value || newIp: the cycle walk starts from the ip the
\* server has in the list, and from the typed ip when a server is added.
CycleSeed(editingIp, newIp) ==
    IF editingIp # Null /\ Truthy(editingIp) THEN editingIp ELSE newIp

\* The outcome of the validation block of saveServer for the form data
\* server: "ok" or the message of the first check that fails.
SaveVerdict(list, mode, editingIp, server) ==
    LET newIp == Trim(server.ip)
        isIpChanged == newIp # editingIp
    IN IF newIp = "" THEN "empty_ip"
       ELSE IF isIpChanged /\ \E i \in 1..Len(list) : list[i].ip = newIp
            THEN "duplicate_ip"
       ELSE IF Truthy(server.parent_ip)
               /\ mode = MODAL_MODE.EDIT /\ Len(server.children) > 0
            THEN "parent_child"
       ELSE IF Truthy(server.parent_ip)
               /\ checkForCircularDependency(list, CycleSeed(editingIp, newIp),
                                             server.parent_ip)
            THEN "circular"
       ELSE "ok"

\* The form data after "2. update data": trimmed ip, derived server_type.
SavedForm(server) ==
    [server EXCEPT !.ip = Trim(server.ip),
                   !.server_type = IF Truthy(server.parent_ip) THEN SERVER_TYPE.CHILD
                                   ELSE SERVER_TYPE.STANDALONE]

\* A standalone server that is named as parent by the form is turned into a
\* parent (the first list entry with that ip, as find returns it).
PromoteParent(list, server) ==
    LET k == FindIndex(list, server.parent_ip)
    IN IF Truthy(server.parent_ip) /\ k # 0
          /\ list[k].server_type = SERVER_TYPE.STANDALONE
       THEN [list EXCEPT ![k].server_type = SERVER_TYPE.PARENT]
       ELSE list

\* Rename cascade: every parent_ip equal to the old ip becomes the new ip.
RenameCascade(list, oldIp, newIp) ==
    [i \in 1..Len(list) |->
        IF list[i].parent_ip = oldIp THEN [list[i] EXCEPT !.parent_ip = newIp]
        ELSE list[i]]

\* Object.assign(originalServer, server) on the first entry whose ip is the
\* ip under edit; nothing when there is none.
AssignOriginal(list, editingIp, server) ==
    LET k == FindIndex(list, editingIp)
    IN IF k = 0 THEN list
       ELSE [list EXCEPT ![k] = StripChildren(server)]

\* config.servers after a save that passed validation.
CommitSave(list, mode, editingIp, server) ==
    LET saved == SavedForm(server)
        promoted == PromoteParent(list, saved)
    IN IF mode = MODAL_MODE.EDIT
       THEN LET cascaded == IF saved.ip # editingIp /\ Truthy(editingIp)
                            THEN RenameCascade(promoted, editingIp, saved.ip)
                            ELSE promoted
            IN AssignOriginal(cascaded, editingIp, saved)
       ELSE Append(promoted, StripChildren(saved))

(***************************************************************************)
(* removeServer                                                            *)
(***************************************************************************)
\* config.servers after a confirmed removeServer of the clicked forest node.
RemoveFromList(list, node) ==
    IF node.server_type = "parent" \/ node.server_type = "standalone"
    THEN SelectSeq(list, LAMBDA s : s.ip # node.ip /\ s.parent_ip # node.ip)
    ELSE LET index == FindIndex(list, node.ip)
         IN IF index > 0 THEN RemoveAt(list, index) ELSE list

(***************************************************************************)
(* parseAndSetConfig                                                       *)
(***************************************************************************)
\* A flattening that does not descend into children.
flattenImportedTopLevel(nodes, parentIp) ==
    [i \in 1..Len(nodes) |->
        FlatServer(nodes[i].ip,
                   IF Truthy(nodes[i].parent_ip) THEN nodes[i].parent_ip ELSE parentIp,
                   nodes[i].server_type, nodes[i].priority)]

\* flattenImportedServers: every node of the imported forest, parent first,
\* with parent_ip stamped from the nesting when the node brings none.
RECURSIVE flattenImportedServers(_, _)
flattenImportedServers(nodes, parentIp) ==
    IF nodes = <<>> THEN <<>>
    ELSE LET s == Head(nodes)
             stamped == FlatServer(s.ip, IF Truthy(s.parent_ip) THEN s.parent_ip ELSE parentIp,
                                   s.server_type, s.priority)
         IN <<stamped>> \o flattenImportedServers(s.children, s.ip)
              \o flattenImportedServers(Tail(nodes), parentIp)

\* a.priority || 0
SortKey(s) == IF s.priority = NoPriority THEN 0 ELSE s.priority

\* Array.prototype.sort with the comparator (a.priority || 0) - (b.priority || 0):
\* a stable sort, written as insertion from the left.
RECURSIVE InsertSorted(_, _)
InsertSorted(sorted, e) ==
    IF sorted = <<>> THEN <<e>>
    ELSE IF SortKey(sorted[Len(sorted)]) <= SortKey(e) THEN Append(sorted, e)
    ELSE Append(InsertSorted(SubSeq(sorted, 1, Len(sorted) - 1), e), sorted[Len(sorted)])

RECURSIVE SortByPriority(_)
SortByPriority(list) ==
    IF list = <<>> THEN <<>>
    ELSE InsertSorted(SortByPriority(SubSeq(list, 1, Len(list) - 1)), list[Len(list)])

\* The ips processAndValidate collects in duplicates.
DuplicatedIps(flatList) ==
    {flatList[j].ip : j \in {j \in 1..Len(flatList) :
                                 \E i \in 1..(j - 1) : flatList[i].ip = flatList[j].ip}}

\* The duplicates array as it is collected, one entry for each repetition.
DuplicateReportWithRepeats(flatList) ==
    LET order == SortedIdx({j \in 1..Len(flatList) :
                               \E i \in 1..(j - 1) : flatList[i].ip = flatList[j].ip})
    IN [k \in 1..Len(order) |-> flatList[order[k]].ip]

\* [...new Set(duplicates)]: the ips of the error message, each at the
\* place of its first repetition.
DuplicateReport(flatList) ==
    LET repeats == {j \in 1..Len(flatList) : \E i \in 1..(j - 1) : flatList[i].ip = flatList[j].ip}
        firsts == {j \in repeats : \A i \in repeats : flatList[i].ip = flatList[j].ip => j <= i}
        order == SortedIdx(firsts)
    IN [k \in 1..Len(order) |-> flatList[order[k]].ip]

\* A validation that lets entries without ip pass.
ImportVerdictIgnoresMissingIp(flatList) ==
    IF DuplicatedIps(flatList) # {} THEN "import_duplicate" ELSE "ok"

\* The outcome of processAndValidate on the flattened batch: the entry
\* without ip is met inside the loop, duplicates are reported after it.
ImportVerdict(flatList) ==
    IF \E i \in 1..Len(flatList) : ~Truthy(flatList[i].ip) THEN "missing_ip"
    ELSE IF DuplicatedIps(flatList) # {} THEN "import_duplicate"
    ELSE "ok"

\* A processAndValidate that returns the entries in the order of the batch.
processAndValidateUnsorted(flatList) == flatList

processAndValidate(flatList) == SortByPriority(flatList)

(***************************************************************************)
(* The compact codec and the compression                                   *)
(***************************************************************************)
\* The JavaScript values the codec meets, as pairs of type and content.
Str(s) == <<"string", s>>
Num(n) == <<"number", n>>
Arr(items) == <<"array", items>>
EmptyObject == <<"object", 0>>
JsNull == <<"null", 0>>
Undefined == <<"undefined", 0>>

\* A ToBoolean for which the string "0" is falsy, like the number 0.
JsTruthyNumeric(v) ==
    \/ v[1] = "string" /\ v[2] # "" /\ v[2] # "0"
    \/ v[1] = "number" /\ v[2] # 0
    \/ v[1] = "array"
    \/ v[1] = "object"

\* ToBoolean(v)
JsTruthy(v) ==
    \/ v[1] = "string" /\ v[2] # ""
    \/ v[1] = "number" /\ v[2] # 0
    \/ v[1] = "array"
    \/ v[1] = "object"

\* v || d
OrElse(v, d) == IF JsTruthy(v) THEN v ELSE d

\* item[k] throws a TypeError on null and undefined.
ReadThrows(item) == item[1] = "null" \/ item[1] = "undefined"

\* item[k - 1] for an item that is an array, a number or {}; strings are
\* not among the items.
Slot(item, k) ==
    IF item[1] = "array" /\ k <= Len(item[2]) THEN item[2][k] ELSE Undefined

\* `#${color}`
WithHash(color) == <<"#", color>>

\* A Server object: the string fields hold JavaScript values, children is
\* the array of the nested servers.
Server(ip, comment, tag, tag_color, ignore_in_list, server_type, parent_ip, children) ==
    [ip |-> ip, comment |-> comment, tag |-> tag, tag_color |-> tag_color,
     tag_color_with_hash |-> WithHash(tag_color), ignore_in_list |-> ignore_in_list,
     server_type |-> server_type, parent_ip |-> parent_ip, selectedPreset |-> "",
     children |-> children]

\* jsonToCompactArray: the array of 6-slot arrays for a forest.
RECURSIVE jsonToCompactArray(_)
jsonToCompactArray(servers) ==
    [i \in 1..Len(servers) |->
        LET server == servers[i]
            children == IF Len(server.children) > 0
                        THEN Arr(jsonToCompactArray(server.children))
                        ELSE Num(0)
        IN Arr(<<server.ip,
                 OrElse(server.comment, Num(0)),
                 OrElse(server.tag, Num(0)),
                 OrElse(server.tag_color, Num(0)),
                 IF server.ignore_in_list THEN Num(1) ELSE Num(0),
                 children>>)]

\* compactArrayToJson(compactData) throws: compactData has no map method, an
\* item is null, or the call on the children slot of an item throws.
RECURSIVE CompactThrows(_)
CompactThrows(compactData) ==
    \/ compactData[1] # "array"
    \/ \E i \in 1..Len(compactData[2]) :
          \/ ReadThrows(compactData[2][i])
          \/ /\ Slot(compactData[2][i], 6)[1] = "array"
             /\ CompactThrows(Slot(compactData[2][i], 6))

\* A decoding that leaves an absent tag_color empty.
DecodedColorAsSent(item) == OrElse(Slot(item, 4), Str(""))

\* item[S_TAG_COLOR] || 'FF9800'
DecodedColor(item) == OrElse(Slot(item, 4), Str("FF9800"))

\* compactArrayToJson on the items of an array for which it does not throw.
RECURSIVE compactArrayToJson(_)
compactArrayToJson(items) ==
    [i \in 1..Len(items) |->
        LET item == items[i]
            kids == Slot(item, 6)
        IN [ip |-> Slot(item, 1),
            comment |-> OrElse(Slot(item, 2), Str("")),
            tag |-> OrElse(Slot(item, 3), Str("")),
            tag_color |-> DecodedColor(item),
            tag_color_with_hash |-> IF JsTruthy(Slot(item, 4))
                                    THEN WithHash(Slot(item, 4))
                                    ELSE WithHash(Str("FF9800")),
            ignore_in_list |-> (Slot(item, 5)[1] = "number" /\ Slot(item, 5)[2] = 1),
            children |-> IF kids[1] = "array" THEN compactArrayToJson(kids[2]) ELSE <<>>,
            server_type |-> "standalone",
            parent_ip |-> "",
            selectedPreset |-> ""]]

\* The servers of a decoded configuration as the import reads them: ip,
\* parent_ip, server_type and children.  An ip that is not a string is read
\* as absent; the payloads of the page carry no number other than 0 as ip.
RECURSIVE PageForest(_)
PageForest(decoded) ==
    [i \in 1..Len(decoded) |->
        Node(IF decoded[i].ip[1] = "string" THEN decoded[i].ip[2] ELSE "",
             decoded[i].parent_ip, decoded[i].server_type, NoPriority,
             PageForest(decoded[i].children))]

\* base64 texts as sequences of characters: "A" stands for the letters and
\* digits, "+" and "/" are the characters the URL-safe form rewrites.
Base64Data == {"A", "+", "/"}

\* String.prototype.replace with a global pattern of one character.
ReplaceAll(text, from, to) ==
    [i \in 1..Len(text) |-> IF text[i] = from THEN to ELSE text[i]]

\* base64.replace(/\+/g, '-').replace(/\//g, '_').replace(/=/g, '')
toUrlSafeBase64(base64) ==
    SelectSeq(ReplaceAll(ReplaceAll(base64, "+", "-"), "/", "_"), LAMBDA c : c # "=")

\* while (base64.length % 4) base64 += '='
RECURSIVE PadToFour(_)
PadToFour(base64) ==
    IF Len(base64) % 4 = 0 THEN base64 ELSE PadToFour(Append(base64, "="))

\* A decoding that leaves "-" and "_" in place.
fromUrlSafeBase64NoRewrite(urlSafeBase64) == PadToFour(urlSafeBase64)

fromUrlSafeBase64(urlSafeBase64) ==
    PadToFour(ReplaceAll(ReplaceAll(urlSafeBase64, "-", "+"), "_", "/"))

\* atob: one or two "=" at the end of a text whose length is a multiple of
\* four are dropped; what is left must be base64 characters and must not
\* have a length of 1 modulo 4.
AtobData(base64) ==
    LET n == Len(base64)
        pad == IF n % 4 = 0 /\ n >= 2 /\ base64[n] = "="
               THEN (IF base64[n - 1] = "=" THEN 2 ELSE 1)
               ELSE 0
    IN SubSeq(base64, 1, n - pad)

AtobThrows(base64) ==
    \/ \E i \in 1..Len(AtobData(base64)) : AtobData(base64)[i] \notin Base64Data
    \/ Len(AtobData(base64)) % 4 = 1

\* JSON.parse(JSON.stringify(v)): undefined becomes null inside an array.
RECURSIVE JsonRoundTrip(_)
JsonRoundTrip(v) ==
    IF v[1] = "array" THEN Arr([i \in 1..Len(v[2]) |-> JsonRoundTrip(v[2][i])])
    ELSE IF v[1] = "undefined" THEN JsNull
    ELSE v

\* An encoded string: text is its characters; book tells what the library
\* calls make of the base64 text `base64`: bytes that do not inflate
\* (content.stage "bytes"), a text that is not JSON ("text"), or the JSON
\* value content.value ("json").  Any other base64 text stands for bytes
\* that do not inflate.
Encoded(text, base64, content) ==
    [text |-> text, book |-> [base64 |-> base64, content |-> content]]

\* compressConfig(configObject), with btoaText the base64 text btoa returns
\* for the deflated JSON of the compact structure.
compressConfig(configObject, btoaText) ==
    LET compactStructure ==
            Arr(<<OrElse(configObject.footer, Num(0)),
                  IF configObject.show_offline_by_default THEN Num(1) ELSE Num(0),
                  Arr(jsonToCompactArray(configObject.servers))>>)
    IN Encoded(toUrlSafeBase64(btoaText), btoaText,
               [stage |-> "json", value |-> JsonRoundTrip(compactStructure)])

\* The statement of decompressConfig that throws, "ok" when none does.
DecodeStage(encodedString) ==
    LET base64 == fromUrlSafeBase64(encodedString.text)
        content == encodedString.book.content
    IN IF AtobThrows(base64) THEN "atob"
       ELSE IF AtobData(base64) # AtobData(encodedString.book.base64) THEN "inflate"
       ELSE IF content.stage = "bytes" THEN "inflate"
       ELSE IF content.stage = "text" THEN "parse"
       ELSE IF ReadThrows(content.value) THEN "read"
       ELSE IF CompactThrows(Slot(content.value, 3)) THEN "map"
       ELSE "ok"

\* decompressConfig: <<>> for null, else <<the AppConfig>>.
decompressConfig(encodedString) ==
    IF DecodeStage(encodedString) # "ok" THEN <<>>
    ELSE LET compactStructure == encodedString.book.content.value
             first == Slot(compactStructure, 1)
             second == Slot(compactStructure, 2)
         IN <<[footer |-> IF first[1] = "number" /\ first[2] = 0 THEN Str("")
                          ELSE OrElse(first, Str("")),
               show_offline_by_default |-> (second[1] = "number" /\ second[2] = 1),
               servers |-> compactArrayToJson(Slot(compactStructure, 3)[2])]>>

(***************************************************************************)
(* Drag and drop on the forest                                             *)
(***************************************************************************)
\* The draggable lists are numbered 0 for the root list and r for the child
\* list rendered below root r.
ListOf(tree, l) == IF l = 0 THEN tree ELSE tree[l].children

WithList(tree, l, new) == IF l = 0 THEN new ELSE [tree EXCEPT ![l].children = new]

\* A checkMove that keeps every node out of the child lists.
checkMoveAnyNode(draggedEl, toChildList) ==
    IF toChildList THEN FALSE ELSE TRUE

\* checkMove: a node with children may not enter a child list.
checkMove(draggedEl, toChildList) ==
    IF Len(draggedEl.children) > 0 /\ toChildList THEN FALSE ELSE TRUE

\* The number of the target list once the dragged element has left its list.
TargetAfterRemoval(fl, fi, tl) == IF fl = 0 /\ tl > fi THEN tl - 1 ELSE tl

\* The forest with the element at position fi of list fl removed.
DragRemoved(tree, fl, fi) == WithList(tree, fl, RemoveAt(ListOf(tree, fl), fi))

\* The forest after the element at position fi of list fl was dropped at
\* position ti of list tl (v-model of the two draggables).
DragResult(tree, fl, fi, tl, ti) ==
    LET e == ListOf(tree, fl)[fi]
        removed == DragRemoved(tree, fl, fi)
        tl2 == TargetAfterRemoval(fl, fi, tl)
    IN WithList(removed, tl2, InsertAt(ListOf(removed, tl2), ti, e))

(***************************************************************************)
(* Inputs of the import                                                    *)
(***************************************************************************)
Leaf(ip, parent_ip, server_type, priority) == Node(ip, parent_ip, server_type, priority, <<>>)

ImportParents == IPs \cup {""}
ImportTypes == {"standalone", NoType}

\* Flat JSON batches of one and two entries without priorities.
SingleBatches ==
    {<<Leaf("a", p, t, NoPriority)>> : p \in ImportParents, t \in ImportTypes}

PairBatches ==
    {<<Leaf("a", pa, ta, NoPriority), Leaf("b", pb, tb, NoPriority)>> :
        pa \in ImportParents, pb \in ImportParents, ta \in ImportTypes, tb \in ImportTypes}

\* Flat JSON batches as an export writes them, with priorities that are not
\* in the order of the entries.
PriorityBatches ==
    {<<Leaf("a", "b", "child", 20), Leaf("b", "", "parent", 10)>>,
     <<Leaf("a", "", "standalone", 30), Leaf("b", "", "standalone", NoPriority),
       Leaf("c", "", "standalone", 10)>>}

\* Nested JSON batches: b below a, and c below b or beside it.
NestedBatches ==
    {<<Node("a", "", ta, NoPriority, <<Node("b", pb, tb, NoPriority, kids)>> \o more)>> :
        ta \in {"parent", NoType}, tb \in {"child", NoType}, pb \in {"", "a"},
        kids \in {<<>>, <<Leaf("c", "", NoType, NoPriority)>>},
        more \in {<<>>, <<Leaf("c", "", "child", NoPriority)>>}}

\* Batches processAndValidate rejects: an entry without ip, a repeated ip.
RejectedBatches ==
    {<<Leaf("a", "", NoType, NoPriority), Leaf("", "", NoType, NoPriority)>>,
     <<Node("a", "", NoType, NoPriority, <<Leaf("", "", NoType, NoPriority)>>)>>,
     <<Leaf("a", "", NoType, NoPriority), Leaf("a", "", NoType, NoPriority)>>,
     <<Node("b", "", NoType, NoPriority, <<Leaf("b", "", NoType, NoPriority)>>)>>}

\* A batch whose entry names as parent_ip a key that map inherits.
InheritedKeyBatches ==
    {<<Leaf("a", k, NoType, NoPriority)>> : k \in InheritedKeys}

\* Compact payloads as decompressConfig hands them to compactArrayToJson.
Compact(ip, children) ==
    Arr(<<Str(ip), Num(0), Num(0), Num(0), Num(0),
          IF children = <<>> THEN Num(0) ELSE Arr(children)>>)

CompactPayloads ==
    {<<>>,
     <<Compact("a", <<>>)>>,
     <<Compact("a", <<>>), Compact("b", <<>>)>>,
     <<Compact("a", <<Compact("b", <<>>)>>)>>,
     <<Compact("a", <<Compact("b", <<>>), Compact("c", <<>>)>>)>>,
     <<Compact("a", <<Compact("b", <<>>)>>), Compact("c", <<>>)>>,
     <<Compact("a", <<Compact("b", <<Compact("c", <<>>)>>)>>)>>,
     <<Compact("a", <<Compact("a", <<>>)>>)>>}

\* The servers arrays parseAndSetConfig is called with.
ImportInputs ==
    {<<>>} \cup SingleBatches \cup PairBatches \cup PriorityBatches \cup NestedBatches
        \cup RejectedBatches \cup InheritedKeyBatches
        \cup {PageForest(compactArrayToJson(c)) : c \in CompactPayloads}

\* The footer field of an imported document: <<>> when absent, <<s>> for the
\* string s, <<"text", s>> for the object {text: s}.
Footers == {<<>>, <<"new">>, <<"text", "new">>}

\* An imported configuration object.
Doc(input, docFooter, flag) ==
    [servers |-> input, footer |-> docFooter, show_offline_by_default |-> flag]

\* A document that brings servers only.
ServersDoc(input) == Doc(input, <<>>, FALSE)

\* The text of a JSON document in the textarea.
JsonText(doc) == [kind |-> "json", doc |-> doc]

\* The servers arrays that are loaded over a list that is not empty.
OverwriteInputs ==
    {<<>>} \cup PriorityBatches \cup RejectedBatches

(***************************************************************************)
(* State                                                                   *)
(***************************************************************************)
VARIABLES
    servers,               \* config.value.servers
    serverTree,            \* serverTree.value
    isServerModalVisible,  \* the add/edit modal is shown
    modalMode,             \* MODAL_MODE.ADD or MODAL_MODE.EDIT
    currentServerData,     \* <<>> for null, else <<the form's node>>
    editingServerIp,       \* ip of the server being edited, Null otherwise
    isSaving,              \* the save button is in its loading state
    savePc,                \* "idle", or "delay" while saveServer awaits its 200 ms
    aliasIdx,              \* index in servers of the object the form data is, 0 if none
    isModalVisible,        \* the alert/confirm dialog is shown
    modalType,             \* "alert" or "confirm"
    modalMessage,          \* the message of the dialog
    pending,               \* <<>>, or <<the operation awaiting showConfirm>>
    probe,                 \* <<>>, or <<a function's arguments and result>> when
                           \* the function is applied on its own
    footer,                \* config.value.footer
    showOffline,           \* config.value.show_offline_by_default
    jsonInput,             \* <<>> for an empty textarea, else <<the text in it>>
    modalMessageIps,       \* the ips the message of the dialog lists, in its order
    watchers               \* the watchers on config.servers, see WatchInit

vars == <<servers, serverTree, isServerModalVisible, modalMode, currentServerData,
          editingServerIp, isSaving, savePc, aliasIdx,
          isModalVisible, modalType, modalMessage, pending, probe,
          footer, showOffline, jsonInput, modalMessageIps, watchers>>

\* The global settings and the import textarea.
cfgVars == <<footer, showOffline, jsonInput>>

\* The state of the page.
pageVars == <<servers, serverTree, isServerModalVisible, modalMode, currentServerData,
              editingServerIp, isSaving, savePc, aliasIdx,
              isModalVisible, modalType, modalMessage, pending,
              footer, showOffline, jsonInput, modalMessageIps, watchers>>

modalVars == <<isServerModalVisible, modalMode, currentServerData, editingServerIp,
               isSaving, savePc, aliasIdx>>

dialogVars == <<isModalVisible, modalType, modalMessage, pending, modalMessageIps>>

\* No dialog has been opened yet.
DialogsInit ==
    /\ isServerModalVisible = FALSE
    /\ modalMode = MODAL_MODE.ADD
    /\ currentServerData = <<>>
    /\ editingServerIp = Null
    /\ isSaving = FALSE
    /\ savePc = "idle"
    /\ aliasIdx = 0
    /\ isModalVisible = FALSE
    /\ modalType = "alert"
    /\ modalMessage = ""
    /\ modalMessageIps = <<>>
    /\ pending = <<>>

\* The settings and the textarea as the refs are created.
ConfigInit ==
    /\ footer = ""
    /\ showOffline = FALSE
    /\ jsonInput = <<>>

\* The watchers on config.servers: initial is the watcher whose stop handle
\* is stopWatch, rearmed counts the watchers startWatch has registered, whose
\* stop handles are dropped; atWrite is the number of watchers that were
\* active when flattenTreeAndSync last replaced config.servers.
WatchInit == watchers = [initial |-> TRUE, rearmed |-> 0, atWrite |-> 0]

\* stopWatch(): the handle of the first watcher.
stopWatch(w) == [w EXCEPT !.initial = FALSE]

\* startWatch(): stopWatch(), then a new watcher with immediate: true.
startWatch(w) == [stopWatch(w) EXCEPT !.rearmed = @ + 1]

\* The watchers that run their callback when config.servers is written.
ActiveWatchers(w) == (IF w.initial THEN 1 ELSE 0) + w.rearmed

Init ==
    /\ servers = <<>>
    /\ serverTree = buildTree(<<>>)
    /\ DialogsInit
    /\ ConfigInit
    /\ WatchInit
    /\ probe = <<>>

\* The page behind the dialogs can be operated.
PageFree == ~isServerModalVisible /\ ~isModalVisible

\* The add/edit modal can be operated.
FormFree == isServerModalVisible /\ ~isModalVisible

\* The watcher on config.servers: serverTree follows every change of the list.
\* When buildTree throws, the assignment of the callback is not reached.
SetServers(list) ==
    /\ servers' = list
    /\ serverTree' = IF ActiveWatchers(watchers) = 0 \/ BuildTreeThrows(list)
                      THEN serverTree ELSE buildTree(list)
    /\ watchers' = watchers

\* flattenTreeAndSync on the forest tree as the drag left it: stopWatch(),
\* the write of config.servers, which the watchers that are still active
\* answer with a rebuild, and in the next tick startWatch(), whose new
\* watcher rebuilds at once.  Every parent_ip of newFlatList is the ip of the
\* entry pushed before it, so buildTree finds a copy for it.
flattenTreeAndSync(tree) ==
    LET newFlatList == flattenTree(tree)
        stopped == stopWatch(watchers)
    IN /\ servers' = newFlatList
       /\ watchers' = [startWatch(stopped) EXCEPT !.atWrite = ActiveWatchers(stopped)]
       /\ serverTree' = buildTree(newFlatList)

\* The dialog: modalType and modalMessage are what the dialog displays.  The
\* template reads them only while isModalVisible, so they are kept at their
\* initial values while the dialog is hidden.
hideModal ==
    /\ isModalVisible' = FALSE
    /\ modalType' = "alert"
    /\ modalMessage' = ""
    /\ modalMessageIps' = <<>>

showAlert(message) ==
    /\ isModalVisible' = TRUE
    /\ modalType' = "alert"
    /\ modalMessage' = message
    /\ modalMessageIps' = <<>>
    /\ UNCHANGED pending

showConfirm(message, op) ==
    /\ isModalVisible' = TRUE
    /\ modalType' = "confirm"
    /\ modalMessage' = message
    /\ modalMessageIps' = <<>>
    /\ pending' = <<op>>

\* The nodes the page renders with edit and delete buttons: the roots and
\* the children of the roots.
RenderedNodes ==
    Range(serverTree) \cup UNION {Range(serverTree[r].children) : r \in 1..Len(serverTree)}

(***************************************************************************)
(* The add/edit modal                                                      *)
(***************************************************************************)
createBlankServer(parentIp) ==
    Node("", parentIp, SERVER_TYPE.STANDALONE, NoPriority, <<>>)

openServerModal(mode, editingIp, data) ==
    /\ isSaving' = FALSE
    /\ modalMode' = mode
    /\ editingServerIp' = editingIp
    /\ currentServerData' = <<data>>
    /\ isServerModalVisible' = TRUE
    /\ aliasIdx' = 0
    /\ UNCHANGED <<servers, serverTree, watchers, savePc, dialogVars>>

\* "+ add server"
AddServer ==
    /\ PageFree
    /\ Len(servers) < MaxServers
    /\ openServerModal(MODAL_MODE.ADD, Null, createBlankServer(""))
    /\ UNCHANGED <<probe, cfgVars>>

\* "+ child" on a root
AddChildServer ==
    /\ PageFree
    /\ Len(servers) < MaxServers
    /\ \E r \in 1..Len(serverTree) :
          openServerModal(MODAL_MODE.ADD, Null, createBlankServer(serverTree[r].ip))
    /\ UNCHANGED <<probe, cfgVars>>

\* the edit button of a rendered node
EditServer ==
    /\ PageFree
    /\ \E node \in RenderedNodes : openServerModal(MODAL_MODE.EDIT, node.ip, node)
    /\ UNCHANGED <<probe, cfgVars>>

\* closeServerModal hides the modal and starts the 300 ms timer whose
\* callback clears currentServerData and editingServerIp.  Nothing reads the
\* two while the modal is hidden, and openServerModal cancels the timer and
\* assigns both, so the callback's assignments are applied with the close.
closeServerModal ==
    /\ isServerModalVisible' = FALSE
    /\ currentServerData' = <<>>
    /\ editingServerIp' = Null
    /\ aliasIdx' = 0

\* cancel button, close button, Escape or a click on the overlay
CancelServerModal ==
    /\ FormFree
    /\ closeServerModal
    /\ UNCHANGED <<servers, serverTree, watchers, modalMode, isSaving, savePc, dialogVars>>
    /\ UNCHANGED <<probe, cfgVars>>

\* A dropdown that also offers the server under edit.
ParentChoicesWithSelf ==
    LET server == currentServerData[1]
        offered == potentialParentServers(servers)
        disabled == (modalMode = MODAL_MODE.EDIT /\ Len(server.children) > 0)
                    \/ Len(offered) = 0
    IN {server.parent_ip}
         \cup (IF disabled THEN {}
               ELSE {""} \cup {offered[i].ip : i \in 1..Len(offered)})

\* The parent_ip values the form can hold when the save button is pressed:
\* the one it was opened with, or, unless the dropdown is disabled, none or
\* one of the offered servers other than the server under edit.
ParentChoices ==
    LET server == currentServerData[1]
        offered == potentialParentServers(servers)
        disabled == (modalMode = MODAL_MODE.EDIT /\ Len(server.children) > 0)
                    \/ Len(offered) = 0
    IN {server.parent_ip}
         \cup (IF disabled THEN {}
               ELSE {""} \cup ({offered[i].ip : i \in 1..Len(offered)} \ {editingServerIp}))

\* The form as saveServer reads it when the user has typed ip and chosen
\* parentIp: currentServerData holds what the handlers assigned, the two
\* fields bound to the inputs hold what the user entered.
FormData(ip, parentIp) == [currentServerData[1] EXCEPT !.ip = ip, !.parent_ip = parentIp]

\* saveServer up to its await, on the form filled with ip and parentIp.  A
\* failed validation raises the alert and assigns nothing else; a passed one
\* commits and leaves the continuation of saveServer waiting.  One
\* continuation is followed at a time.
SaveServerWith(ip, parentIp) ==
    /\ FormFree
    /\ currentServerData # <<>>
    /\ ~isSaving
    /\ savePc = "idle"
    /\ parentIp \in ParentChoices
    /\ LET server == FormData(ip, parentIp)
           verdict == SaveVerdict(servers, modalMode, editingServerIp, server)
       IN IF verdict # "ok"
          THEN /\ showAlert(verdict)
               /\ isSaving' = FALSE
               /\ UNCHANGED <<servers, serverTree, watchers, isServerModalVisible, modalMode,
                              currentServerData, editingServerIp, savePc, aliasIdx>>
          ELSE /\ SetServers(CommitSave(servers, modalMode, editingServerIp, server))
               /\ currentServerData' = <<SavedForm(server)>>
               /\ isSaving' = TRUE
               /\ savePc' = "delay"
               /\ aliasIdx' = IF modalMode = MODAL_MODE.ADD THEN Len(servers) + 1 ELSE 0
               /\ UNCHANGED <<isServerModalVisible, modalMode, editingServerIp,
                              dialogVars>>
    /\ UNCHANGED <<probe, cfgVars>>

SaveServer == \E ip \in IpInputs, parentIp \in ImportParents : SaveServerWith(ip, parentIp)

\* The form is edited while the modal is still open after an add was
\* committed: the form data is the object that was pushed to config.servers.
EditCommittedForm ==
    /\ FormFree
    /\ aliasIdx # 0
    /\ currentServerData # <<>>
    /\ \/ \E ip \in IpInputs :
            /\ currentServerData' = <<[currentServerData[1] EXCEPT !.ip = ip]>>
            /\ SetServers([servers EXCEPT ![aliasIdx].ip = ip])
       \/ \E parentIp \in ParentChoices :
            /\ currentServerData' = <<[currentServerData[1] EXCEPT !.parent_ip = parentIp]>>
            /\ SetServers([servers EXCEPT ![aliasIdx].parent_ip = parentIp])
    /\ UNCHANGED <<isServerModalVisible, modalMode, editingServerIp, isSaving, savePc,
                   aliasIdx, dialogVars>>
    /\ UNCHANGED <<probe, cfgVars>>

\* saveServer after its await
SaveFinish ==
    /\ savePc = "delay"
    /\ savePc' = "idle"
    /\ isSaving' = FALSE
    /\ closeServerModal
    /\ UNCHANGED <<servers, serverTree, watchers, modalMode, dialogVars>>
    /\ UNCHANGED <<probe, cfgVars>>

(***************************************************************************)
(* Removal, import and drag                                                *)
(***************************************************************************)
\* the delete button of a rendered node: removeServer up to its await
RemoveServer ==
    /\ PageFree
    /\ \E node \in RenderedNodes :
          showConfirm("remove", [op |-> "removeServer", node |-> node])
    /\ UNCHANGED <<servers, serverTree, watchers, modalVars>>
    /\ UNCHANGED <<probe, cfgVars>>

\* removeAllServers up to its await
RemoveAllServers ==
    /\ PageFree
    /\ Len(servers) > 0
    /\ showConfirm("remove_all", [op |-> "removeAllServers", node |-> <<>>])
    /\ UNCHANGED <<servers, serverTree, watchers, modalVars>>
    /\ UNCHANGED <<probe, cfgVars>>

\* footerContent || "" after the unwrapping of {text: ...}
FooterOf(docFooter) == IF docFooter = <<>> THEN "" ELSE docFooter[Len(docFooter)]

\* parseAndSetConfig on the configuration object input, called while no
\* dialog is shown: the configuration is replaced, or an alert is raised
\* and nothing changes.
parseAndSetConfig(input) ==
    LET flatServers == flattenImportedServers(input.servers, "")
        verdict == ImportVerdict(flatServers)
    IN IF verdict = "ok"
       THEN /\ SetServers(processAndValidate(flatServers))
            /\ footer' = FooterOf(input.footer)
            /\ showOffline' = input.show_offline_by_default
            /\ hideModal
       ELSE /\ isModalVisible' = TRUE
            /\ modalType' = "alert"
            /\ modalMessage' = verdict
            /\ modalMessageIps' = IF verdict = "import_duplicate"
                                  THEN DuplicateReport(flatServers) ELSE <<>>
            /\ UNCHANGED <<servers, serverTree, watchers, footer, showOffline>>

\* A text that is a compact payload, after "/mcs import " when prefixed.
PayloadText(prefixed, payload) ==
    [kind |-> "payload", prefixed |-> prefixed, payload |-> payload]

\* A text scheme://host/?name=value&..., with query the sequence of its
\* <<name, value>> pairs; a value is <<>> when empty, else <<the string>>.
\* wellFormed tells whether new URL(input) accepts the text.
UrlText(scheme, wellFormed, query) ==
    [kind |-> "url", scheme |-> scheme, wellFormed |-> wellFormed, query |-> query]

\* input.startsWith('http') && input.includes('?data='): "?" stands before
\* the first parameter only.
LooksLikeShareLink(text) ==
    /\ text.kind = "url"
    /\ text.scheme = "http"
    /\ Len(text.query) > 0
    /\ text.query[1][1] = "data"

\* url.searchParams.get(name): the value of the first parameter of that
\* name, <<>> when there is none or it is empty.
SearchParamsGet(query, name) ==
    IF \E i \in 1..Len(query) : query[i][1] = name
    THEN query[CHOOSE i \in 1..Len(query) :
                  /\ query[i][1] = name
                  /\ \A j \in 1..(i - 1) : query[j][1] # name][2]
    ELSE <<>>

\* The configuration object decompressConfig returned, as parseAndSetConfig
\* reads it.
DecompressedDoc(decompressed) ==
    [servers |-> PageForest(decompressed.servers),
     footer |-> <<decompressed.footer[2]>>,
     show_offline_by_default |-> decompressed.show_offline_by_default]

\* An alert of loadConfig; the configuration and the textarea stay.
LoadRefused(message) ==
    /\ isModalVisible' = TRUE
    /\ modalType' = "alert"
    /\ modalMessage' = message
    /\ modalMessageIps' = <<>>
    /\ UNCHANGED <<servers, serverTree, watchers, cfgVars>>

\* parseAndSetConfig from loadConfig: the textarea is emptied on success.
ParseAndClear(doc) ==
    /\ parseAndSetConfig(doc)
    /\ jsonInput' = IF ImportVerdict(flattenImportedServers(doc.servers, "")) = "ok"
                    THEN <<>> ELSE jsonInput

\* loadConfig after the confirmation, on the trimmed text of the textarea:
\* an empty text raises an alert; a text that starts with http and holds
\* "?data=" is read as a share link, whose data parameter is decompressed
\* and goes to parseAndSetConfig; every other text goes to parseAndSetConfig
\* as a JSON string, where JSON.parse throws on a text that is not JSON (a
\* link, a compact payload with or without its prefix).
loadConfigBody(text) ==
    IF text = <<>>
    THEN LoadRefused("empty_input")
    ELSE IF LooksLikeShareLink(text[1])
    THEN IF ~text[1].wellFormed
         THEN LoadRefused("url_invalid")
         ELSE LET dataFromUrl == SearchParamsGet(text[1].query, "data")
              IN IF dataFromUrl = <<>>
                 THEN LoadRefused("url_no_data")
                 ELSE IF decompressConfig(dataFromUrl[1]) = <<>>
                 THEN LoadRefused("url_not_decompressed")
                 ELSE ParseAndClear(DecompressedDoc(decompressConfig(dataFromUrl[1])[1]))
    ELSE IF text[1].kind = "json"
    THEN ParseAndClear(text[1].doc)
    ELSE LoadRefused("json_syntax")

\* "load configuration" pressed on an empty list with one of texts in the
\* textarea.
loadConfigNow(texts) ==
    /\ PageFree
    /\ Len(servers) = 0
    /\ \E text \in texts : loadConfigBody(text)
    /\ UNCHANGED <<modalVars, pending>>
    /\ UNCHANGED probe

\* A text is pasted and loaded in one step, and a text that was rejected is
\* taken out of the textarea again; the import of the mount handler, which
\* calls parseAndSetConfig on the decompressed configuration, is the same
\* step.
LoadConfig == loadConfigNow({<<JsonText(ServersDoc(input))>> : input \in ImportInputs})

\* "load configuration" on a non-empty list: loadConfig up to its await
LoadConfigAsk ==
    /\ PageFree
    /\ Len(servers) > 0
    /\ showConfirm("overwrite", [op |-> "loadConfig", node |-> <<>>])
    /\ UNCHANGED <<servers, serverTree, watchers, modalVars>>
    /\ UNCHANGED <<probe, cfgVars>>

\* onModalConfirm, followed by the operation that awaited the answer;
\* loadConfig goes on with one of texts in the textarea.
onModalConfirm(texts) ==
    /\ isModalVisible
    /\ pending' = <<>>
    /\ IF pending = <<>>
       THEN /\ hideModal
            /\ UNCHANGED <<servers, serverTree, watchers, cfgVars>>
       ELSE CASE pending[1].op = "removeServer" ->
                   /\ SetServers(RemoveFromList(servers, pending[1].node))
                   /\ hideModal
                   /\ UNCHANGED cfgVars
              [] pending[1].op = "removeAllServers" ->
                   /\ SetServers(<<>>)
                   /\ hideModal
                   /\ UNCHANGED cfgVars
              [] OTHER ->
                   \E text \in texts : loadConfigBody(text)
    /\ UNCHANGED modalVars
    /\ UNCHANGED probe

\* The confirm button; a load pastes its text in the same step.
ModalConfirm == onModalConfirm({<<JsonText(ServersDoc(input))>> : input \in OverwriteInputs})

\* A cancel button that answers the awaiting operation with true.
ModalCancelAnswersTrue == onModalConfirm({jsonInput})

\* onModalCancel: the awaiting operation gets false and does nothing
ModalCancel ==
    /\ isModalVisible
    /\ hideModal
    /\ pending' = <<>>
    /\ UNCHANGED <<servers, serverTree, watchers, modalVars>>
    /\ UNCHANGED <<probe, cfgVars>>

\* A drag that ends with the element at position fi of list fl dropped at
\* position ti of list tl, followed by flattenTreeAndSync.  checkMove guards
\* the drags that start in the root list; a root cannot be dropped into the
\* child list rendered inside itself.
DragEndWith(fl, fi, tl, ti) ==
    /\ PageFree
    /\ fl \in 0..Len(serverTree)
    /\ tl \in 0..Len(serverTree)
    /\ fi \in 1..Len(ListOf(serverTree, fl))
    /\ ~(fl = 0 /\ tl = fi)
    /\ fl = 0 => checkMove(serverTree[fi], tl # 0)
    /\ ti \in 1..(Len(ListOf(DragRemoved(serverTree, fl, fi),
                              TargetAfterRemoval(fl, fi, tl))) + 1)
    /\ watchers.rearmed < MaxWatchers
    /\ flattenTreeAndSync(DragResult(serverTree, fl, fi, tl, ti))
    /\ UNCHANGED <<modalVars, dialogVars>>
    /\ UNCHANGED <<probe, cfgVars>>

DragEnd ==
    \E fl \in 0..Len(serverTree), tl \in 0..Len(serverTree) :
        \E fi \in 1..Len(ListOf(serverTree, fl)), ti \in 1..(Len(ListOf(serverTree, tl)) + 1) :
            DragEndWith(fl, fi, tl, ti)

Next ==
    \/ AddServer
    \/ AddChildServer
    \/ EditServer
    \/ CancelServerModal
    \/ SaveServer
    \/ SaveFinish
    \/ RemoveServer
    \/ RemoveAllServers
    \/ LoadConfig
    \/ LoadConfigAsk
    \/ ModalConfirm
    \/ ModalCancel
    \/ DragEnd

Spec == Init /\ [][Next]_vars

(***************************************************************************)
(* The settings, the textarea and the import                               *)
(***************************************************************************)
\* The servers arrays of the texts typed into the textarea: accepted ones,
\* ones without an ip, ones with repeated ips.
TypedArrays ==
    {<<>>,
     <<Leaf("a", "", NoType, NoPriority)>>,
     <<Node("a", "", NoType, NoPriority, <<Leaf("b", "", NoType, NoPriority)>>)>>}
    \cup PriorityBatches \cup RejectedBatches
    \cup {<<Leaf("a", "", NoType, NoPriority), Leaf("a", "", NoType, NoPriority),
            Leaf("a", "", NoType, NoPriority)>>,
          <<Leaf("b", "", NoType, NoPriority), Leaf("a", "", NoType, NoPriority),
            Node("c", "", NoType, NoPriority, <<Leaf("a", "", NoType, NoPriority),
                                                Leaf("b", "", NoType, NoPriority)>>)>>,
          <<Leaf("a", "", NoType, NoPriority), Leaf("a", "", NoType, NoPriority),
            Leaf("", "", NoType, NoPriority)>>}

\* The texts typed into the textarea.
TypedTexts ==
    {<<JsonText(Doc(input, f[1], f[2]))>> :
        input \in TypedArrays,
        f \in {<< <<>>, FALSE >>, << <<"new">>, TRUE >>, << <<"text", "new">>, FALSE >>}}

\* The textarea is edited.
TypeJsonInput ==
    /\ PageFree
    /\ \E text \in TypedTexts \cup {<<>>} :
          /\ text # jsonInput
          /\ jsonInput' = text
    /\ UNCHANGED <<servers, serverTree, watchers, modalVars, dialogVars, probe, footer, showOffline>>

\* The footer input is edited.
EditFooter ==
    /\ PageFree
    /\ \E text \in {"", "old"} :
          /\ text # footer
          /\ footer' = text
    /\ UNCHANGED <<servers, serverTree, watchers, modalVars, dialogVars, probe, showOffline, jsonInput>>

\* The "show offline by default" checkbox is clicked.
ToggleShowOffline ==
    /\ PageFree
    /\ showOffline' = ~showOffline
    /\ UNCHANGED <<servers, serverTree, watchers, modalVars, dialogVars, probe, footer, jsonInput>>

\* "load configuration" on an empty list, with the textarea as it is
LoadTyped == loadConfigNow({jsonInput})

\* The confirm button; a load goes on with the textarea as it is.
ConfirmTyped == onModalConfirm({jsonInput})

NextConfig ==
    \/ TypeJsonInput
    \/ EditFooter
    \/ ToggleShowOffline
    \/ LoadTyped
    \/ LoadConfigAsk
    \/ RemoveServer
    \/ RemoveAllServers
    \/ ConfirmTyped
    \/ ModalCancel

SpecConfig == Init /\ [][NextConfig]_vars

\* The program with the form edits that can be made while an add is saving.
NextForm == Next \/ EditCommittedForm

SpecForm == Init /\ [][NextForm]_vars

(***************************************************************************)
(* The structural invariants of the flat list.                             *)
(***************************************************************************)

\* The ips reached from start by following parent_ip links, start included.
RECURSIVE ChainClosure(_, _)
ChainClosure(list, S) ==
    LET step == {list[i].parent_ip : i \in {k \in 1..Len(list) :
                     list[k].ip \in S /\ Truthy(list[k].parent_ip)}}
    IN IF step \subseteq S THEN S ELSE ChainClosure(list, S \cup step)

ChainFrom(list, start) == ChainClosure(list, {start})

UniqueIps(list) == \A i, j \in 1..Len(list) : list[i].ip = list[j].ip => i = j

AcyclicList(list) ==
    \A i \in 1..Len(list) :
        Truthy(list[i].parent_ip) => list[i].ip \notin ChainFrom(list, list[i].parent_ip)

HasChild(list, ip) == \E j \in 1..Len(list) : list[j].parent_ip = ip

\* C1: in every state no server that has a non-empty parent_ip is itself
\* named as parent_ip by a server: the hierarchy is at most one level deep.
C1_DepthAtMostOne ==
    \A i \in 1..Len(servers) :
        Truthy(servers[i].parent_ip) => ~HasChild(servers, servers[i].ip)

\* C2: in every state each stored server_type is the derived one: child iff
\* parent_ip is non-empty, else parent iff another server names it as
\* parent_ip, else standalone.
C2_TypeDerived ==
    \A i \in 1..Len(servers) :
        servers[i].server_type =
            IF Truthy(servers[i].parent_ip) THEN SERVER_TYPE.CHILD
            ELSE IF \E j \in 1..Len(servers) : j # i /\ servers[j].parent_ip = servers[i].ip
                 THEN SERVER_TYPE.PARENT
                 ELSE SERVER_TYPE.STANDALONE

C4_Acyclic == AcyclicList(servers)

\* C5: in every state each non-empty parent_ip is the ip of another server
\* of config.servers.
C5_ParentsExist ==
    \A i \in 1..Len(servers) :
        Truthy(servers[i].parent_ip) =>
            \E j \in 1..Len(servers) : j # i /\ servers[j].ip = servers[i].parent_ip

(***************************************************************************)
(* saveServer: rejection                                                   *)
(***************************************************************************)

\* The messages of the four validation failures of saveServer.
SaveFailures == {"empty_ip", "duplicate_ip", "parent_child", "circular"}

\* The step left config.servers as it was and raised a save-failure alert.
RejectedUnchanged ==
    /\ servers' = servers
    /\ serverTree' = serverTree
    /\ isModalVisible'
    /\ modalType' = "alert"
    /\ modalMessage' \in SaveFailures

\* The ip the saved entity has in config.servers before the save.
SavedEntity(ip) == IF modalMode = MODAL_MODE.EDIT THEN editingServerIp ELSE Trim(ip)

\* The form filled with ip and parentIp is invalid: empty ip after trimming,
\* an ip another server holds, a parent given to a server that has
\* children, or a parent whose ancestor chain leads to the saved server.
InvalidForm(ip, parentIp) ==
    \/ Trim(ip) = ""
    \/ Trim(ip) # editingServerIp /\ \E i \in 1..Len(servers) : servers[i].ip = Trim(ip)
    \/ /\ modalMode = MODAL_MODE.EDIT
       /\ Truthy(parentIp)
       /\ HasChild(servers, editingServerIp)
    \/ /\ Truthy(parentIp)
       /\ parentIp # SavedEntity(ip)
       /\ SavedEntity(ip) \in ChainFrom(servers, parentIp)

\* C6: a saveServer whose form is invalid changes nothing in config.servers
\* (no rename, no parent_ip rewrite, no promotion of the would-be parent) and
\* shows a failure message.
C6_SaveAllOrNothing ==
    [][\A ip \in IpInputs, parentIp \in ImportParents :
          SaveServerWith(ip, parentIp) /\ InvalidForm(ip, parentIp) => RejectedUnchanged]_vars

\* C6 witness: a save was refused for a circular dependency while the form
\* stays open over a non-empty list.
C6_Witness ==
    /\ isModalVisible
    /\ modalMessage = "circular"
    /\ isServerModalVisible
    /\ Len(servers) >= 1

ProbeLists ==
    UNION {[1..n -> {FlatServer(ip, parentIp, SERVER_TYPE.STANDALONE, NoPriority) :
                        ip \in IPs, parentIp \in ImportParents}] : n \in 0..MaxProbeLen}

InitCycle ==
    /\ servers \in ProbeLists
    /\ serverTree = buildTree(servers)
    /\ DialogsInit
    /\ ConfigInit
    /\ WatchInit
    /\ probe \in {<<[serverIp |-> s, newParentIp |-> np, called |-> FALSE, result |-> FALSE]>> :
                     s \in IPs, np \in ImportParents}

\* checkForCircularDependency(serverIp, newParentIp) is called on config.servers.
CallCheckForCircularDependency ==
    /\ ~probe[1].called
    /\ probe' = <<[probe[1] EXCEPT
                     !.called = TRUE,
                     !.result = checkForCircularDependency(
                                    servers, probe[1].serverIp, probe[1].newParentIp)]>>
    /\ UNCHANGED pageVars

NextCycle == CallCheckForCircularDependency

SpecCycle == InitCycle /\ [][NextCycle]_vars

\* C8: on a list with unique ips and acyclic parent_ip chains, and for a
\* non-empty newParentIp other than serverIp, checkForCircularDependency
\* returns true exactly when serverIp lies on the chain of parent_ip links
\* that starts at newParentIp; a chain that ends at a root or at an unknown
\* ip without meeting serverIp gives false.
C8_CycleDetector ==
    /\ probe # <<>>
    /\ probe[1].called
    /\ Truthy(probe[1].newParentIp)
    /\ probe[1].newParentIp # probe[1].serverIp
    /\ UniqueIps(servers)
    /\ AcyclicList(servers)
    => probe[1].result = (probe[1].serverIp \in ChainFrom(servers, probe[1].newParentIp))

\* C8 witness: leaf -> mid -> root, and the detector answered true for
\* (root, leaf).
C8_Witness ==
    /\ probe # <<>>
    /\ probe[1].called
    /\ probe[1].result
    /\ UniqueIps(servers)
    /\ AcyclicList(servers)
    /\ \E leaf, mid, root \in 1..Len(servers) :
          /\ servers[leaf].parent_ip = servers[mid].ip
          /\ servers[mid].parent_ip = servers[root].ip
          /\ servers[root].parent_ip = ""
          /\ probe[1].serverIp = servers[root].ip
          /\ probe[1].newParentIp = servers[leaf].ip

(***************************************************************************)
(* saveServer: rename                                                      *)
(***************************************************************************)

\* The ips of the servers of list whose parent_ip is ip.
ChildrenOf(list, ip) == {list[i].ip : i \in {k \in 1..Len(list) : list[k].parent_ip = ip}}

\* The step is an accepted edit-mode save of the form filled with ip and
\* parentIp that renames the edited server.
RenamingSave(ip, parentIp) ==
    /\ SaveServerWith(ip, parentIp)
    /\ modalMode = MODAL_MODE.EDIT
    /\ ~isModalVisible'
    /\ Trim(ip) # editingServerIp

\* Every parent_ip that was the old ip is the new ip, and the old ip is
\* neither an ip nor a parent_ip any more.
RenameRewritesLinks(old, new) ==
    /\ Len(servers') = Len(servers)
    /\ \A i \in 1..Len(servers) :
          servers[i].parent_ip = old => servers'[i].parent_ip = new
    /\ \A i \in 1..Len(servers') :
          servers'[i].ip # old /\ servers'[i].parent_ip # old

\* C9: after an accepted edit-mode save that changes the ip of a server from
\* old to new, every server whose parent_ip was old has parent_ip new, no
\* server has old as ip or parent_ip, and the renamed server has the
\* children it had before.
C9_RenameCascade ==
    [][\A ip \in IpInputs, parentIp \in ImportParents :
          RenamingSave(ip, parentIp) =>
              /\ RenameRewritesLinks(editingServerIp, Trim(ip))
              /\ ChildrenOf(servers', Trim(ip)) = ChildrenOf(servers, editingServerIp)]_vars

(***************************************************************************)
(* flattenTreeAndSync                                                      *)
(***************************************************************************)

\* The positions of the nodes of a forest: <<i>> is root i, p \o <<j>> the
\* j-th child of the node at p.
RECURSIVE PathsOf(_)
PathsOf(nodes) ==
    UNION {{<<i>>} \cup {<<i>> \o q : q \in PathsOf(nodes[i].children)} : i \in 1..Len(nodes)}

RECURSIVE NodeAt(_, _)
NodeAt(nodes, path) ==
    IF Len(path) = 1 THEN nodes[path[1]]
    ELSE NodeAt(nodes[path[1]].children, Tail(path))

\* p comes no later than q when the forest is walked in pre-order.
PreOrderLeq(p, q) ==
    LET common == {k \in 1..Min({Len(p), Len(q)}) : p[k] # q[k]}
    IN IF common = {} THEN Len(p) <= Len(q)
       ELSE p[Min(common)] < q[Min(common)]

\* What the claim says the flat list is for a forest.
PreOrderList(tree) ==
    LET paths == PathsOf(tree)
        at(i) == CHOOSE p \in paths :
                     Cardinality({q \in paths : PreOrderLeq(q, p)}) = i
    IN [i \in 1..Cardinality(paths) |->
          LET p == at(i)
              node == NodeAt(tree, p)
              up == IF Len(p) = 1 THEN "" ELSE NodeAt(tree, SubSeq(p, 1, Len(p) - 1)).ip
          IN FlatServer(node.ip, up,
                        IF Len(p) > 1 THEN SERVER_TYPE.CHILD
                        ELSE IF Len(node.children) > 0 THEN SERVER_TYPE.PARENT
                        ELSE SERVER_TYPE.STANDALONE,
                        10 * i)]

\* C10: flattenTreeAndSync replaces config.servers by the pre-order
\* enumeration of serverTree as the drag left it: each node once, the i-th
\* with priority 10*i, parent_ip the ip of its immediate ancestor ("" for a
\* root), server_type child under an ancestor, else parent with children,
\* else standalone.
C10_FlattenPreOrder ==
    [][PageFree =>
         \A fl \in 0..Len(serverTree), tl \in 0..Len(serverTree) :
            \A fi \in 1..Len(ListOf(serverTree, fl)),
               ti \in 1..(Len(ListOf(serverTree, tl)) + 1) :
               DragEndWith(fl, fi, tl, ti) =>
                   servers' = PreOrderList(DragResult(serverTree, fl, fi, tl, ti))]_vars

\* C10 witness: a list as a drag leaves it, a parent followed by its child
\* and a standalone server, numbered 10, 20, 30.
C10_Witness ==
    /\ Len(servers) = 3
    /\ \A i \in 1..3 : servers[i].priority = 10 * i
    /\ servers[1].server_type = SERVER_TYPE.PARENT
    /\ servers[2].server_type = SERVER_TYPE.CHILD
    /\ servers[2].parent_ip = servers[1].ip
    /\ servers[3].server_type = SERVER_TYPE.STANDALONE

(***************************************************************************)
(* Priorities                                                              *)
(***************************************************************************)

\* Every priority of list is defined and a multiple of 10, and the
\* priorities grow strictly along the pre-order walk of tree.
PrioritiesInPreOrder(list, tree) ==
    /\ \A i \in 1..Len(list) :
          list[i].priority # NoPriority /\ list[i].priority % 10 = 0
    /\ \A p, q \in PathsOf(tree) :
          p # q /\ PreOrderLeq(p, q) => NodeAt(tree, p).priority < NodeAt(tree, q).priority

\* C11 as stated: in every state the priorities of config.servers are
\* defined, multiples of 10 and strictly increasing along the pre-order walk
\* of the tree.
C11_PriorityAlways == PrioritiesInPreOrder(servers, serverTree)

\* C11 amended: the priorities are defined, multiples of 10 and strictly
\* increasing along the pre-order walk of the tree right after
\* flattenTreeAndSync (a saved new server has none, an import keeps those of
\* its input).
C11_PriorityAfterFlatten ==
    [][PageFree =>
         \A fl \in 0..Len(serverTree), tl \in 0..Len(serverTree) :
            \A fi \in 1..Len(ListOf(serverTree, fl)),
               ti \in 1..(Len(ListOf(serverTree, tl)) + 1) :
               DragEndWith(fl, fi, tl, ti) => PrioritiesInPreOrder(servers', serverTree')]_vars

\* C11 witness: a list of two as a drag leaves it, the child numbered after
\* its parent.
C11_Witness ==
    /\ Len(servers) = 2
    /\ servers[1].priority = 10
    /\ servers[2].priority = 20
    /\ servers[2].parent_ip = servers[1].ip
    /\ PrioritiesInPreOrder(servers, serverTree)

(***************************************************************************)
(* Confirmation dialogs                                                    *)
(***************************************************************************)

\* C12: raising the confirm dialog of removeServer, removeAllServers or
\* loadConfig, and cancelling it, leave config (servers, footer,
\* show_offline_by_default), serverTree and jsonInput as they are.
C12_CancelAborts ==
    [][(RemoveServer \/ RemoveAllServers \/ LoadConfigAsk \/ (pending # <<>> /\ ModalCancel))
          => UNCHANGED <<servers, serverTree, footer, showOffline, jsonInput>>]_vars

\* C12 witness: the overwrite confirmation is open over a non-empty list
\* with an edited footer and a text waiting in the textarea.
C12_Witness ==
    /\ isModalVisible
    /\ modalType = "confirm"
    /\ pending # <<>>
    /\ pending[1].op = "loadConfig"
    /\ Len(servers) > 0
    /\ footer = "old"
    /\ jsonInput # <<>>

(***************************************************************************)
(* removeServer                                                            *)
(***************************************************************************)

\* The step is the confirmation of the removal of the rendered node.
ConfirmedRemoval ==
    /\ pending # <<>>
    /\ pending[1].op = "removeServer"
    /\ ModalConfirm

\* The list without the server ip and without the servers that name it.
WithoutFamily(list, ip) == SelectSeq(list, LAMBDA s : s.ip # ip /\ s.parent_ip # ip)

\* The list without the first server ip.
WithoutOne(list, ip) == RemoveAt(list, FindIndex(list, ip))

\* The removal of node met what is expected of it: a server with an empty
\* parent_ip goes with every server that names it, a child goes alone, and
\* the others stay as they are, in their order.
RemovalAsStated(node) ==
    LET k == FindIndex(servers, node.ip)
    IN /\ (k # 0 /\ servers[k].parent_ip = "") => servers' = WithoutFamily(servers, node.ip)
       /\ (k # 0 /\ Truthy(node.parent_ip)) => servers' = WithoutOne(servers, node.ip)

\* C13: a confirmed removeServer of a server whose parent_ip is empty removes
\* it and every server whose parent_ip is its ip and nothing else; a
\* confirmed removal of a child removes that server alone.
C13_RemoveFrame == [][ConfirmedRemoval => RemovalAsStated(pending[1].node)]_vars

(***************************************************************************)
(* Import: rejection                                                       *)
(***************************************************************************)

\* The step is loadConfig parsing the text of the textarea.
LoadStep ==
    /\ jsonInput # <<>>
    /\ \/ LoadTyped
       \/ pending # <<>> /\ pending[1].op = "loadConfig" /\ ConfirmTyped

\* The nodes of an imported forest, at every nesting level.
ImportedNodes(forest) == {NodeAt(forest, p) : p \in PathsOf(forest)}

\* The ips that two or more nodes of the forest carry.
RepeatedIps(forest) ==
    {NodeAt(forest, p).ip : p \in {q \in PathsOf(forest) :
        \E r \in PathsOf(forest) : r # q /\ NodeAt(forest, r).ip = NodeAt(forest, q).ip}}

\* The import was refused with message and config is as it was.
ImportRefused(message) ==
    /\ servers' = servers
    /\ footer' = footer
    /\ showOffline' = showOffline
    /\ jsonInput' = jsonInput
    /\ isModalVisible'
    /\ modalType' = "alert"
    /\ modalMessage' = message

\* C14: an import whose batch holds, at any nesting level, an entry without
\* ip is refused with an error, and config.servers, config.footer and
\* config.show_offline_by_default stay as they were.
C14_MissingIpAtomic ==
    [][(LoadStep /\ \E n \in ImportedNodes(jsonInput[1].doc.servers) : n.ip = "")
          => ImportRefused("missing_ip")]_vars

\* C14 witness: an import was refused for a missing ip over a non-empty list
\* and an edited footer.
C14_Witness ==
    /\ isModalVisible
    /\ modalMessage = "missing_ip"
    /\ Len(servers) > 0
    /\ footer = "old"

\* The message lists exactly the ips of S, each once.
ListsEachOnce(S) ==
    /\ Range(modalMessageIps') = S
    /\ Len(modalMessageIps') = Cardinality(S)

\* C15 as stated: an import whose batch repeats an ip, at the same or at
\* different nesting levels, is refused, config stays as it was, and the
\* message names each repeated ip once.
C15_DuplicatesNamedOnce ==
    [][(LoadStep /\ RepeatedIps(jsonInput[1].doc.servers) # {})
          => /\ \E message \in {"missing_ip", "import_duplicate"} : ImportRefused(message)
             /\ ListsEachOnce(RepeatedIps(jsonInput[1].doc.servers))]_vars

\* C15 amended: such an import is refused and config stays as it was; when
\* no entry of the batch lacks an ip, the message names each repeated ip
\* once (an entry without ip is reported instead of the repetitions).
C15_DuplicatesNamedOnceWithIps ==
    [][(LoadStep /\ RepeatedIps(jsonInput[1].doc.servers) # {})
          => /\ \E message \in {"missing_ip", "import_duplicate"} : ImportRefused(message)
             /\ (\A n \in ImportedNodes(jsonInput[1].doc.servers) : n.ip # "")
                   => /\ modalMessage' = "import_duplicate"
                      /\ ListsEachOnce(RepeatedIps(jsonInput[1].doc.servers))]_vars

\* C15 witness: an import that repeats two ips at different nesting levels
\* was refused over a non-empty list, and the message lists the two.
C15_Witness ==
    /\ isModalVisible
    /\ modalMessage = "import_duplicate"
    /\ Len(modalMessageIps) = 2
    /\ Len(servers) > 0

(***************************************************************************)
(* flattenImportedServers applied on its own                               *)
(***************************************************************************)

\* The imported nodes without their children: two ips, with and without a
\* parent_ip of their own.
ProbeLabels == {<<ip, parentIp>> : ip \in {"a", "b"}, parentIp \in {"", "c"}}

\* The forests of exactly n nodes.
RECURSIVE ForestsOfSize(_)
ForestsOfSize(n) ==
    IF n = 0 THEN {<<>>}
    ELSE UNION {{<<Node(l[1], l[2], NoType, NoPriority, kids)>> \o rest :
                    l \in ProbeLabels, kids \in ForestsOfSize(k - 1),
                    rest \in ForestsOfSize(n - k)} : k \in 1..n}

ProbeForests == UNION {ForestsOfSize(n) : n \in 0..MaxProbeLen}

InitFlattenImport ==
    /\ servers = <<>>
    /\ serverTree = buildTree(<<>>)
    /\ DialogsInit
    /\ ConfigInit
    /\ WatchInit
    /\ probe \in {<<[input |-> f, called |-> FALSE, result |-> <<>>]>> : f \in ProbeForests}

\* flattenImportedServers(importedConfig.servers) is called.
CallFlattenImportedServers ==
    /\ ~probe[1].called
    /\ probe' = <<[probe[1] EXCEPT !.called = TRUE,
                                   !.result = flattenImportedServers(probe[1].input, "")]>>
    /\ UNCHANGED pageVars

NextFlattenImport == CallFlattenImportedServers

SpecFlattenImport == InitFlattenImport /\ [][NextFlattenImport]_vars

\* The path of forest that comes i-th in pre-order.
PathAtRank(forest, i) ==
    CHOOSE p \in PathsOf(forest) :
        Cardinality({q \in PathsOf(forest) : PreOrderLeq(q, p)}) = i

\* C16: flattenImportedServers lists every node of the forest once, a parent
\* before its descendants (in pre-order), without children; a node without
\* a parent_ip of its own gets the ip of the node it is nested under, or ""
\* at the top level, and a node with a parent_ip of its own keeps it.
C16_FlattenImported ==
    (probe # <<>> /\ probe[1].called) =>
        LET forest == probe[1].input
            result == probe[1].result
        IN /\ Len(result) = Cardinality(PathsOf(forest))
           /\ \A i \in 1..Len(result) :
                 LET p == PathAtRank(forest, i)
                     node == NodeAt(forest, p)
                 IN /\ result[i].ip = node.ip
                    /\ "children" \notin DOMAIN result[i]
                    /\ result[i].parent_ip =
                          IF node.parent_ip # "" THEN node.parent_ip
                          ELSE IF Len(p) = 1 THEN ""
                          ELSE NodeAt(forest, SubSeq(p, 1, Len(p) - 1)).ip

\* C16 witness: a root with two nested nodes was flattened, one stamped with
\* the ip of the root, the other keeping its own parent_ip.
C16_Witness ==
    /\ probe # <<>>
    /\ probe[1].called
    /\ Len(probe[1].input) = 1
    /\ Len(probe[1].result) = 3
    /\ probe[1].result[1].ip = "a"
    /\ [i \in 1..3 |-> probe[1].result[i].parent_ip] = <<"", "a", "c">>

(***************************************************************************)
(* Import of batches with priorities                                       *)
(***************************************************************************)

\* The priority fields of imported entries: absent, 0, and two positives.
ImportPriorities == {NoPriority, 0, 10, 20}

\* Batches of up to three entries with every choice of priorities, flat and
\* with the entries after the first nested below it.
PriorityArrays ==
    LET one(pa) == <<Leaf("a", "", NoType, pa)>>
        two(pa, pb) == <<Leaf("a", "", NoType, pa), Leaf("b", "", NoType, pb)>>
        three(pa, pb, pc) == two(pa, pb) \o <<Leaf("c", "", NoType, pc)>>
        nested(pa, kids) == <<Node("a", "", NoType, pa, kids)>>
    IN {<<>>}
       \cup {one(pa) : pa \in ImportPriorities}
       \cup {two(pa, pb) : pa \in ImportPriorities, pb \in ImportPriorities}
       \cup {three(pa, pb, pc) :
                pa \in ImportPriorities, pb \in ImportPriorities, pc \in ImportPriorities}
       \cup {nested(pa, Tail(two(pa, pb))) :
                pa \in ImportPriorities, pb \in ImportPriorities}
       \cup {nested(pa, Tail(three(pa, pb, pc))) :
                pa \in ImportPriorities, pb \in ImportPriorities, pc \in ImportPriorities}

PriorityTexts == {<<JsonText(ServersDoc(input))>> : input \in PriorityArrays}

\* A batch with priorities is pasted into the textarea.
TypePriorityBatch ==
    /\ PageFree
    /\ \E text \in PriorityTexts :
          /\ text # jsonInput
          /\ jsonInput' = text
    /\ UNCHANGED <<servers, serverTree, watchers, modalVars, dialogVars, probe, footer, showOffline>>

NextImport ==
    \/ TypePriorityBatch
    \/ LoadTyped
    \/ LoadConfigAsk
    \/ ConfirmTyped
    \/ ModalCancel

SpecImport == Init /\ [][NextImport]_vars

\* The priority an entry counts with: 0 when it has no priority field.
CountedPriority(s) == IF s.priority = NoPriority THEN 0 ELSE s.priority

\* parseAndSetConfig returned true: loadConfig emptied the textarea.
ImportSucceeded == LoadStep /\ jsonInput' = <<>>

\* C17: after a successful parseAndSetConfig, config.servers is ordered by
\* non-decreasing priority, an entry without priority counting as 0, so that
\* the entries without priority precede every entry of positive priority.
C17_ImportSorted ==
    [][ImportSucceeded =>
          /\ Len(servers') = Cardinality(PathsOf(jsonInput[1].doc.servers))
          /\ \A i \in 1..Len(servers'), j \in 1..Len(servers') :
                i < j => CountedPriority(servers'[i]) <= CountedPriority(servers'[j])
          /\ \A i \in 1..Len(servers'), j \in 1..Len(servers') :
                (servers'[i].priority > 0 /\ servers'[j].priority = NoPriority) => j < i]_vars

\* C17 witness: an import put an entry without priority and an entry of
\* priority 10 before the entry of priority 20 that came first in its batch.
C17_Witness ==
    /\ Len(servers) = 3
    /\ ~isModalVisible
    /\ servers[1].ip = "b" /\ servers[1].priority = NoPriority
    /\ servers[2].ip = "c" /\ servers[2].priority = 10
    /\ servers[3].ip = "a" /\ servers[3].priority = 20

(***************************************************************************)
(* buildTree and the flattening applied on their own                       *)
(***************************************************************************)

\* The flat lists buildTree is applied to: any ips, any parent_ip, among them
\* one that no server has and one that map inherits; an entry with a
\* parent_ip is stored as child, entry i has priority 10*i.
TreeProbeEntries == IPs \X (ImportParents \cup InheritedKeys)

TreeProbeList(entries) ==
    [i \in 1..Len(entries) |->
        FlatServer(entries[i][1], entries[i][2],
                   IF entries[i][2] = "" THEN SERVER_TYPE.STANDALONE
                   ELSE SERVER_TYPE.CHILD,
                   10 * i)]

InitTree ==
    /\ \E n \in 0..MaxProbeLen :
          \E entries \in [1..n -> TreeProbeEntries] : servers = TreeProbeList(entries)
    /\ serverTree = <<>>
    /\ DialogsInit
    /\ ConfigInit
    /\ WatchInit
    /\ probe = <<[input |-> servers, called |-> FALSE, threw |-> FALSE,
                  flattened |-> FALSE, flat |-> <<>>, rebuilt |-> <<>>]>>

\* serverTree.value = buildTree(config.value.servers)
CallBuildTree ==
    /\ ~probe[1].called
    /\ servers' = FlatListAfterBuildTree(servers)
    /\ serverTree' = IF BuildTreeThrows(servers) THEN serverTree ELSE buildTree(servers)
    /\ probe' = <<[probe[1] EXCEPT !.called = TRUE, !.threw = BuildTreeThrows(servers)]>>
    /\ UNCHANGED <<modalVars, dialogVars, cfgVars, watchers>>

\* The tree is flattened and buildTree is applied to the flat list.
CallFlattenAndBuildTree ==
    /\ probe[1].called
    /\ ~probe[1].threw
    /\ ~probe[1].flattened
    /\ LET flat == flattenTree(serverTree)
       IN probe' = <<[probe[1] EXCEPT !.flattened = TRUE,
                                      !.flat = flat,
                                      !.rebuilt = buildTree(flat)]>>
    /\ UNCHANGED pageVars

NextTree == CallBuildTree \/ CallFlattenAndBuildTree

SpecTree == InitTree /\ [][NextTree]_vars

\* The ips of the nodes of a forest, and its edges: <<"", ip>> for a root,
\* <<parent ip, child ip>> for a child.
NodeIps(tree) == {NodeAt(tree, p).ip : p \in PathsOf(tree)}

Edges(tree) ==
    {<<IF Len(p) = 1 THEN "" ELSE NodeAt(tree, SubSeq(p, 1, Len(p) - 1)).ip,
       NodeAt(tree, p).ip>> : p \in PathsOf(tree)}

HasIp(list, ip) == \E i \in 1..Len(list) : list[i].ip = ip

\* No server nests under a server that itself nests under a server.
NestingAtMostOne(list) ==
    \A i, j \in 1..Len(list) :
        (list[i].parent_ip = list[j].ip /\ Truthy(list[j].parent_ip))
            => ~HasIp(list, list[j].parent_ip)

\* C18: for a flat list with unique ips, acyclic parent_ip and nesting depth
\* at most one, buildTree of the flattening of buildTree(servers) has the
\* nodes and the parent/child edges of buildTree(servers), and the priorities
\* of the flattening increase strictly along the pre-order of the tree.
C18_RoundTrip ==
    (/\ probe # <<>>
     /\ probe[1].called
     /\ UniqueIps(probe[1].input)
     /\ AcyclicList(probe[1].input)
     /\ NestingAtMostOne(probe[1].input))
        => /\ ~probe[1].threw
           /\ probe[1].flattened =>
                 /\ NodeIps(probe[1].rebuilt) = NodeIps(serverTree)
                 /\ Edges(probe[1].rebuilt) = Edges(serverTree)
                 /\ Len(probe[1].flat) = Cardinality(PathsOf(serverTree))
                 /\ \A i \in 1..Len(probe[1].flat) :
                       probe[1].flat[i].ip = PreOrderList(serverTree)[i].ip
                 /\ \A i, j \in 1..Len(probe[1].flat) :
                       i < j => probe[1].flat[i].priority < probe[1].flat[j].priority

\* The round trip on the lists buildTree returns a forest for.
C18_RoundTripWhenBuilt ==
    (/\ probe # <<>>
     /\ probe[1].flattened
     /\ UniqueIps(probe[1].input)
     /\ AcyclicList(probe[1].input)
     /\ NestingAtMostOne(probe[1].input))
        => /\ NodeIps(probe[1].rebuilt) = NodeIps(serverTree)
           /\ Edges(probe[1].rebuilt) = Edges(serverTree)
           /\ \A i \in 1..Len(probe[1].flat) :
                 probe[1].flat[i].ip = PreOrderList(serverTree)[i].ip
           /\ \A i, j \in 1..Len(probe[1].flat) :
                 i < j => probe[1].flat[i].priority < probe[1].flat[j].priority

\* The entries of list whose non-empty parent_ip is the ip of no entry.
Orphans(list) ==
    {i \in 1..Len(list) : Truthy(list[i].parent_ip) /\ ~HasIp(list, list[i].parent_ip)}

\* Entry i of the input is a root of tree, with parent_ip cleared and
\* server_type standalone.
HealedAtRoot(tree, list, i) ==
    \E r \in 1..Len(tree) :
        /\ tree[r].ip = list[i].ip
        /\ tree[r].priority = list[i].priority
        /\ tree[r].parent_ip = ""
        /\ tree[r].server_type = SERVER_TYPE.STANDALONE

\* C19: buildTree does not fail on a list with orphans, every orphan is a
\* root of the returned forest with parent_ip cleared and server_type
\* standalone, and the entries of the input list are as they were.
C19_OrphansHealed ==
    (probe # <<>> /\ probe[1].called) =>
        /\ ~probe[1].threw
        /\ \A i \in Orphans(probe[1].input) : HealedAtRoot(serverTree, probe[1].input, i)
        /\ servers = probe[1].input

\* The orphans on the lists buildTree returns a forest for.
C19_OrphansHealedWhenBuilt ==
    (probe # <<>> /\ probe[1].called /\ ~probe[1].threw) =>
        /\ \A i \in Orphans(probe[1].input) : HealedAtRoot(serverTree, probe[1].input, i)
        /\ servers = probe[1].input

\* The priorities along a list of nodes increase: with entry i of the input
\* carrying priority 10*i, the nodes are in the relative order of the input.
InInputOrder(nodes) ==
    \A i, j \in 1..Len(nodes) : i < j => nodes[i].priority < nodes[j].priority

\* C20: the roots of the forest buildTree returns are in the relative order
\* of the input list, and so are the children of every node, also when a
\* child comes before its parent in the input.
C20_OrderPreserved ==
    (probe # <<>> /\ probe[1].called /\ ~probe[1].threw) =>
        /\ InInputOrder(serverTree)
        /\ \A p \in PathsOf(serverTree) : InInputOrder(NodeAt(serverTree, p).children)
        /\ \A r \in 1..Len(serverTree) :
              \E i \in 1..Len(probe[1].input) :
                  /\ probe[1].input[i].ip = serverTree[r].ip
                  /\ probe[1].input[i].priority = serverTree[r].priority

\* C20 witness: buildTree was applied to a list whose two children come
\* before their parent, with a root before and between them.
C20_Witness ==
    /\ probe # <<>>
    /\ probe[1].called
    /\ ~probe[1].threw
    /\ Len(probe[1].input) = 3
    /\ probe[1].input[1].parent_ip = "c"
    /\ probe[1].input[2].parent_ip = "c"
    /\ probe[1].input[3].ip = "c"
    /\ Len(serverTree) = 1
    /\ Len(serverTree[1].children) = 2
    /\ serverTree[1].children[1].priority = 10
    /\ serverTree[1].children[2].priority = 20

(***************************************************************************)
(* The watchers and the tree                                               *)
(***************************************************************************)

\* C21: on every call of flattenTreeAndSync no watcher on config.servers is
\* active when config.servers is replaced, and a watcher is active again
\* after the next tick.
C21_WatcherSuspended ==
    watchers.rearmed > 0 =>
        /\ watchers.atWrite = 0
        /\ ActiveWatchers(watchers) > 0

\* The hand-off on the first call of flattenTreeAndSync.
FirstSyncSuspended ==
    watchers.rearmed = 1 =>
        /\ watchers.atWrite = 0
        /\ ActiveWatchers(watchers) > 0

\* C22: after any sequence of saveServer, removeServer, removeAllServers,
\* parseAndSetConfig and flattenTreeAndSync, when the pending ticks have
\* run, serverTree has the nodes and the parent/child edges of
\* buildTree(config.servers).
C22_TreeDerived ==
    /\ ~BuildTreeThrows(servers)
    /\ NodeIps(serverTree) = NodeIps(buildTree(servers))
    /\ Edges(serverTree) = Edges(buildTree(servers))

\* The tree is the derivation of the list whenever buildTree returns one.
TreeDerivedWhenBuilt ==
    ~BuildTreeThrows(servers) => serverTree = buildTree(servers)

(***************************************************************************)
(* The compact codec applied on its own                                    *)
(***************************************************************************)

\* The ip, comment, tag, tag_color and ignore_in_list of the servers that
\* are encoded: every string field empty and not empty.
CodecLabels ==
    {<<"a", "", "", "", FALSE>>,
     <<"b", "hi", "t", "3498DB", TRUE>>,
     <<"a", "hi", "", "", FALSE>>,
     <<"b", "", "t", "3498DB", FALSE>>,
     <<"a", "", "", "FF9800", TRUE>>}

\* The forests of exactly n servers with fields from labels; every server is
\* stored as a child of a.
RECURSIVE ServerForests(_, _)
ServerForests(labels, n) ==
    IF n = 0 THEN {<<>>}
    ELSE UNION {{<<Server(Str(l[1]), Str(l[2]), Str(l[3]), Str(l[4]), l[5],
                          SERVER_TYPE.CHILD, "a", kids)>> \o rest :
                    l \in labels, kids \in ServerForests(labels, k - 1),
                    rest \in ServerForests(labels, n - k)} : k \in 1..n}

CodecForestsOfSize(n) == ServerForests(CodecLabels, n)

InitCodec ==
    /\ servers = <<>>
    /\ serverTree = buildTree(<<>>)
    /\ DialogsInit
    /\ ConfigInit
    /\ WatchInit
    /\ \E n \in 0..MaxProbeLen :
          \E forest \in CodecForestsOfSize(n) :
              probe = <<[forest |-> forest, encoded |-> FALSE, compact |-> <<>>,
                         decoded |-> FALSE, result |-> <<>>]>>

\* jsonToCompactArray(forest) is called.
CallJsonToCompactArray ==
    /\ ~probe[1].encoded
    /\ probe' = <<[probe[1] EXCEPT !.encoded = TRUE,
                                   !.compact = jsonToCompactArray(probe[1].forest)]>>
    /\ UNCHANGED pageVars

\* compactArrayToJson is called on the compact array.
CallCompactArrayToJson ==
    /\ probe[1].encoded
    /\ ~probe[1].decoded
    /\ ~CompactThrows(Arr(probe[1].compact))
    /\ probe' = <<[probe[1] EXCEPT !.decoded = TRUE,
                                   !.result = compactArrayToJson(probe[1].compact)]>>
    /\ UNCHANGED pageVars

NextCodec == CallJsonToCompactArray \/ CallCompactArrayToJson

SpecCodec == InitCodec /\ [][NextCodec]_vars

\* The forest `back` has the shape of forest and at every position the ip,
\* comment, tag and ignore_in_list of forest, server_type standalone and an
\* empty parent_ip.
ReproducedButColor(forest, back) ==
    /\ PathsOf(back) = PathsOf(forest)
    /\ \A p \in PathsOf(forest) :
          LET sent == NodeAt(forest, p)
              got == NodeAt(back, p)
          IN /\ got.ip = sent.ip
             /\ got.comment = sent.comment
             /\ got.tag = sent.tag
             /\ got.ignore_in_list = sent.ignore_in_list
             /\ got.server_type = SERVER_TYPE.STANDALONE
             /\ got.parent_ip = ""

\* C23: for a forest whose field values are never the number 0,
\* compactArrayToJson(jsonToCompactArray(forest)) has the shape of the forest
\* and the ip, comment, tag, tag_color and ignore_in_list of every node, with
\* server_type standalone and parent_ip empty.
C23_CodecRoundTrip ==
    (probe # <<>> /\ probe[1].decoded) =>
        /\ ReproducedButColor(probe[1].forest, probe[1].result)
        /\ \A p \in PathsOf(probe[1].forest) :
              NodeAt(probe[1].result, p).tag_color = NodeAt(probe[1].forest, p).tag_color

\* C23 as it holds: as above, where an empty tag_color comes back as the
\* default FF9800 and every other tag_color as it was.
C23_CodecRoundTripDefaultColor ==
    (probe # <<>> /\ probe[1].decoded) =>
        /\ ReproducedButColor(probe[1].forest, probe[1].result)
        /\ \A p \in PathsOf(probe[1].forest) :
              NodeAt(probe[1].result, p).tag_color =
                  IF NodeAt(probe[1].forest, p).tag_color = Str("")
                  THEN Str("FF9800")
                  ELSE NodeAt(probe[1].forest, p).tag_color

\* C23 witness: a root with a nested server went through both functions,
\* one of them with a colour and one without.
C23_Witness ==
    /\ probe # <<>>
    /\ probe[1].decoded
    /\ Len(probe[1].result) = 1
    /\ Len(probe[1].result[1].children) = 1
    /\ probe[1].forest[1].tag_color = Str("")
    /\ probe[1].result[1].tag_color = Str("FF9800")
    /\ probe[1].result[1].children[1].tag_color = Str("3498DB")
    /\ probe[1].result[1].children[1].ignore_in_list

(***************************************************************************)
(* compressConfig and decompressConfig applied on their own                *)
(***************************************************************************)

\* The servers of the configurations that are compressed: all fields empty,
\* all fields set.
CompressedLabels ==
    {<<"a", "", "", "", FALSE>>, <<"b", "hi", "t", "3498DB", TRUE>>}

\* The base64 texts of four characters btoa can return: four, three or two
\* characters of data, padded with "=".
Base64Texts ==
    UNION {{data \o [i \in 1..(4 - n) |-> "="] : data \in [1..n -> Base64Data]} : n \in 2..4}

InitCompress ==
    /\ servers = <<>>
    /\ serverTree = buildTree(<<>>)
    /\ DialogsInit
    /\ ConfigInit
    /\ WatchInit
    /\ \E n \in 0..MaxProbeLen :
          \E forest \in ServerForests(CompressedLabels, n) :
              \E docFooter \in {Str(""), Str("new")}, flag \in BOOLEAN, btoaText \in Base64Texts :
                  probe = <<[config |-> [footer |-> docFooter,
                                         show_offline_by_default |-> flag,
                                         servers |-> forest],
                             btoaText |-> btoaText,
                             stage |-> "start", encodedString |-> <<>>, result |-> <<>>]>>

\* compressConfig(config) is called.
CallCompressConfig ==
    /\ probe[1].stage = "start"
    /\ probe' = <<[probe[1] EXCEPT
                     !.stage = "compressed",
                     !.encodedString = <<compressConfig(probe[1].config, probe[1].btoaText)>>]>>
    /\ UNCHANGED pageVars

\* decompressConfig is called on the string compressConfig returned.
CallDecompressConfig ==
    /\ probe[1].stage = "compressed"
    /\ probe' = <<[probe[1] EXCEPT
                     !.stage = "decompressed",
                     !.result = decompressConfig(probe[1].encodedString[1])]>>
    /\ UNCHANGED pageVars

NextCompress == CallCompressConfig \/ CallDecompressConfig

SpecCompress == InitCompress /\ [][NextCompress]_vars

\* C24: decompressConfig(compressConfig(C)) is not null and has the footer,
\* the show_offline_by_default and the tree shape of C, and
\* fromUrlSafeBase64 gives back the base64 text that toUrlSafeBase64 rewrote.
C24_CompressRoundTrip ==
    (probe # <<>> /\ probe[1].stage = "decompressed") =>
        /\ probe[1].result # <<>>
        /\ probe[1].result[1].footer = probe[1].config.footer
        /\ probe[1].result[1].show_offline_by_default
              = probe[1].config.show_offline_by_default
        /\ PathsOf(probe[1].result[1].servers) = PathsOf(probe[1].config.servers)
        /\ \A p \in PathsOf(probe[1].config.servers) :
              NodeAt(probe[1].result[1].servers, p).ip = NodeAt(probe[1].config.servers, p).ip
        /\ fromUrlSafeBase64(probe[1].encodedString[1].text) = probe[1].btoaText

\* C24 witness: a configuration with a footer, the flag set and a nested
\* server came back from a base64 text with "+", "/" and padding.
C24_Witness ==
    /\ probe # <<>>
    /\ probe[1].stage = "decompressed"
    /\ probe[1].btoaText = <<"+", "/", "A", "=">>
    /\ probe[1].encodedString[1].text = <<"-", "_", "A">>
    /\ probe[1].result # <<>>
    /\ probe[1].result[1].footer = Str("new")
    /\ probe[1].result[1].show_offline_by_default
    /\ Len(probe[1].result[1].servers) = 1
    /\ Len(probe[1].result[1].servers[1].children) = 1

(***************************************************************************)
(* decompressConfig applied to strings that are not payloads               *)
(***************************************************************************)

\* A 6-slot server array with ip and children slot as given.
CompactItem(ip, children) == Arr(<<ip, Num(0), Num(0), Num(0), Num(0), children>>)

\* JSON values that are not [footer, flag, array of 6-slot server arrays],
\* and two that are.
DecodedValues ==
    {JsNull, Num(5), EmptyObject, Arr(<<>>),
     Arr(<<Num(0), Num(0)>>),
     Arr(<<Num(0), Num(0), Str("x")>>),
     Arr(<<Num(0), Num(0), EmptyObject>>),
     Arr(<<Num(0), Num(0), Arr(<<JsNull>>)>>),
     Arr(<<Num(0), Num(0), Arr(<<Num(5)>>)>>),
     Arr(<<Num(0), Num(0), Arr(<<EmptyObject>>)>>),
     Arr(<<Num(0), Num(0), Arr(<<Arr(<<>>)>>)>>),
     Arr(<<Num(0), Num(0), Arr(<<Arr(<<Str("a")>>)>>)>>),
     Arr(<<Num(0), Num(0), Arr(<<CompactItem(Num(7), Num(0))>>)>>),
     Arr(<<Num(0), Num(0), Arr(<<CompactItem(JsNull, Num(0))>>)>>),
     Arr(<<Num(0), Num(0), Arr(<<CompactItem(Str("a"), Str("x"))>>)>>),
     Arr(<<Num(0), Num(0), Arr(<<CompactItem(Str("a"), Arr(<<JsNull>>))>>)>>),
     Arr(<<Num(0), Num(0), Arr(<<CompactItem(Str("a"), Arr(<<Arr(<<>>)>>))>>)>>),
     Arr(<<Num(0), Num(0), Arr(<<>>)>>),
     Arr(<<Str("new"), Num(1),
           Arr(<<CompactItem(Str("a"), Arr(<<CompactItem(Str("b"), Num(0))>>))>>)>>)}

\* What the library calls make of a base64 text.
DecodedContents ==
    {[stage |-> "bytes", value |-> JsNull], [stage |-> "text", value |-> JsNull]}
        \cup {[stage |-> "json", value |-> v] : v \in DecodedValues}

\* The strings decompressConfig is called with: URL-safe texts of the base64
\* text AAAA, and texts that are not base64.
DecodedTexts ==
    {<<"A", "A", "A", "A">>, <<"A">>, <<"A", "=", "A", "A">>, <<"A", "*", "A", "A">>,
     <<"A", "A", "A", "A", "A">>}

InitDecode ==
    /\ servers = <<>>
    /\ serverTree = buildTree(<<>>)
    /\ DialogsInit
    /\ ConfigInit
    /\ WatchInit
    /\ \E text \in DecodedTexts, content \in DecodedContents :
          probe = <<[encodedString |-> Encoded(text, <<"A", "A", "A", "A">>, content),
                     called |-> FALSE, result |-> <<>>]>>

\* decompressConfig(encodedString) is called.
CallDecompressConfigOn ==
    /\ ~probe[1].called
    /\ probe' = <<[probe[1] EXCEPT !.called = TRUE,
                                   !.result = decompressConfig(probe[1].encodedString)]>>
    /\ UNCHANGED pageVars

NextDecode == CallDecompressConfigOn

SpecDecode == InitDecode /\ [][NextDecode]_vars

\* A 6-slot server array with a string ip, whose children slot is 0 or an
\* array of such arrays.
RECURSIVE IsServerArray(_)
IsServerArray(item) ==
    /\ item[1] = "array"
    /\ Len(item[2]) = 6
    /\ item[2][1][1] = "string"
    /\ \/ item[2][6][1] = "number" /\ item[2][6][2] = 0
       \/ /\ item[2][6][1] = "array"
          /\ \A i \in 1..Len(item[2][6][2]) : IsServerArray(item[2][6][2][i])

\* The string is a well-formed payload: base64 of bytes that inflate to the
\* JSON text of [footer, flag, array of 6-slot server arrays].
WellFormedPayload(encodedString) ==
    LET base64 == fromUrlSafeBase64(encodedString.text)
        content == encodedString.book.content
    IN /\ ~AtobThrows(base64)
       /\ AtobData(base64) = AtobData(encodedString.book.base64)
       /\ content.stage = "json"
       /\ content.value[1] = "array"
       /\ Len(content.value[2]) = 3
       /\ content.value[2][3][1] = "array"
       /\ \A i \in 1..Len(content.value[2][3][2]) : IsServerArray(content.value[2][3][2][i])

\* Every server of the forest has a string as ip.
RECURSIVE AllIpsStrings(_)
AllIpsStrings(forest) ==
    \A i \in 1..Len(forest) :
        forest[i].ip[1] = "string" /\ AllIpsStrings(forest[i].children)

\* C25: for a string that is not a well-formed payload decompressConfig
\* returns null; it never returns a configuration with a server whose ip is
\* not a string.
C25_DecodeFailsClosed ==
    (probe # <<>> /\ probe[1].called) =>
        /\ ~WellFormedPayload(probe[1].encodedString) => probe[1].result = <<>>
        /\ probe[1].result # <<>> => AllIpsStrings(probe[1].result[1].servers)

\* null is returned whenever a statement of decompressConfig throws: for a
\* text that is not base64, bytes that do not inflate, a text that is not
\* JSON, and a JSON value on which compactArrayToJson throws.
DecodeNullWhenThrown ==
    (probe # <<>> /\ probe[1].called) =>
        (DecodeStage(probe[1].encodedString) # "ok" <=> probe[1].result = <<>>)

(***************************************************************************)
(* Share links and compact payloads in the textarea                        *)
(***************************************************************************)
\* The configurations that were compressed into the payloads.
SharedConfigs ==
    {[footer |-> Str(""), show_offline_by_default |-> FALSE,
      servers |-> <<Server(Str("a"), Str(""), Str(""), Str(""), FALSE,
                           SERVER_TYPE.STANDALONE, "", <<>>)>>,
      btoaText |-> <<"A", "A", "A", "A">>],
     [footer |-> Str("new"), show_offline_by_default |-> TRUE,
      servers |-> <<Server(Str("a"), Str("hi"), Str("t"), Str("3498DB"), TRUE,
                           SERVER_TYPE.PARENT, "",
                           <<Server(Str("b"), Str(""), Str(""), Str(""), FALSE,
                                    SERVER_TYPE.CHILD, "a", <<>>)>>)>>,
      btoaText |-> <<"+", "/", "A", "=">>]}

\* The strings compressConfig produced for them.
SharedPayloads ==
    {compressConfig([footer |-> c.footer,
                     show_offline_by_default |-> c.show_offline_by_default,
                     servers |-> c.servers], c.btoaText) : c \in SharedConfigs}

\* Strings that do not decompress: one that is not base64, one whose bytes
\* do not inflate.
BrokenPayloads ==
    {Encoded(<<"A">>, <<"A", "A", "A", "A">>, [stage |-> "bytes", value |-> JsNull]),
     Encoded(<<"A", "A", "-", "A">>, <<"A", "A", "+", "A">>,
             [stage |-> "bytes", value |-> JsNull])}

\* The query strings of the links: data alone, data after or before another
\* parameter, an empty data, no data.
Queries(payload) ==
    {<< <<"data", <<payload>> >> >>,
     << <<"v", <<>> >>, <<"data", <<payload>> >> >>,
     << <<"data", <<payload>> >>, <<"v", <<>> >> >>,
     << <<"data", <<>> >> >>,
     << <<"v", <<>> >> >>}

\* The texts typed into the textarea: payloads with and without the command
\* prefix, and links.
ShareTexts ==
    {<<PayloadText(prefixed, payload)>> : prefixed \in BOOLEAN, payload \in SharedPayloads}
    \cup UNION {{<<UrlText("http", wellFormed, query)>> :
                    wellFormed \in BOOLEAN, query \in Queries(payload)} :
                payload \in SharedPayloads \cup BrokenPayloads}
    \cup UNION {{<<UrlText("ftp", TRUE, query)>> : query \in Queries(payload)} :
                payload \in SharedPayloads}

\* The textarea is edited.
TypeShareText ==
    /\ PageFree
    /\ \E text \in ShareTexts :
          /\ text # jsonInput
          /\ jsonInput' = text
    /\ UNCHANGED <<servers, serverTree, watchers, modalVars, dialogVars, probe, footer, showOffline>>

NextShare ==
    \/ TypeShareText
    \/ EditFooter
    \/ LoadTyped
    \/ LoadConfigAsk
    \/ ConfirmTyped
    \/ ModalCancel

SpecShare == Init /\ [][NextShare]_vars

\* The step installs the configuration that payload encodes.
Installs(payload) ==
    LET decompressed == decompressConfig(payload)
    IN /\ decompressed # <<>>
       /\ servers' = processAndValidate(
              flattenImportedServers(DecompressedDoc(decompressed[1]).servers, ""))
       /\ footer' = decompressed[1].footer[2]
       /\ showOffline' = decompressed[1].show_offline_by_default
       /\ ~isModalVisible'

\* The step shows an error and leaves config and the textarea.
Refuses ==
    /\ isModalVisible'
    /\ modalType' = "alert"
    /\ servers' = servers
    /\ footer' = footer
    /\ showOffline' = showOffline
    /\ jsonInput' = jsonInput

\* C26: when the text to import is a string compressConfig produced, with
\* or without "/mcs import " in front, loadConfig decompresses it and
\* installs the configuration it encodes.
C26_BarePayloadImported ==
    [][(LoadStep /\ jsonInput[1].kind = "payload")
          => Installs(jsonInput[1].payload)]_vars

\* What loadConfig does with such a text: it is handed to JSON.parse, and
\* the syntax error is shown; config and the textarea stay.
PayloadTextRefused ==
    [][(LoadStep /\ jsonInput[1].kind = "payload")
          => Refuses /\ modalMessage' = "json_syntax"]_vars

\* The text is a URL that new URL accepts and that has a data parameter.
UrlWithData(text) ==
    /\ text.kind = "url"
    /\ text.wellFormed
    /\ \E i \in 1..Len(text.query) : text.query[i][1] = "data"

\* C27: when the text to import is a URL with a data parameter at any
\* position of its query string, loadConfig installs the configuration the
\* parameter decompresses to; when the parameter does not decompress it
\* shows an error and leaves config and jsonInput as they were.
C27_UrlImportPrecedence ==
    [][(LoadStep /\ UrlWithData(jsonInput[1]))
          => LET dataFromUrl == SearchParamsGet(jsonInput[1].query, "data")
             IN IF dataFromUrl # <<>> /\ decompressConfig(dataFromUrl[1]) # <<>>
                THEN Installs(dataFromUrl[1])
                ELSE Refuses /\ modalMessage' # "json_syntax"]_vars

\* The same for the links loadConfig recognises, which start with http and
\* have data as their first parameter.
ShareLinkImported ==
    [][(LoadStep /\ UrlWithData(jsonInput[1]) /\ LooksLikeShareLink(jsonInput[1]))
          => LET dataFromUrl == SearchParamsGet(jsonInput[1].query, "data")
             IN IF dataFromUrl # <<>> /\ decompressConfig(dataFromUrl[1]) # <<>>
                THEN Installs(dataFromUrl[1])
                ELSE Refuses /\ modalMessage' \in {"url_no_data", "url_not_decompressed"}]_vars

\* A link was imported: the list, the footer and the flag of the second
\* shared configuration are installed.
ShareLinkInstalled ==
    /\ Len(servers) = 2
    /\ footer = "new"
    /\ showOffline
    /\ jsonInput = <<>>

(***************************************************************************)
(* outputJson applied on its own                                           *)
(***************************************************************************)
\* cleanNode of outputJson: the object literal newNode, with the children
\* cleaned in turn.
RECURSIVE cleanNode(_)
cleanNode(node) ==
    [ip |-> node.ip,
     comment |-> node.comment,
     tag |-> node.tag,
     tag_color |-> node.tag_color,
     tag_color_with_hash |-> node.tag_color_with_hash,
     ignore_in_list |-> node.ignore_in_list,
     children |-> [i \in 1..Len(node.children) |-> cleanNode(node.children[i])],
     server_type |-> IF node.server_type = "" THEN "standalone" ELSE node.server_type,
     parent_ip |-> node.parent_ip,
     selectedPreset |-> node.selectedPreset]

\* outputJson for the forest tree of serverTree and the settings of config.
outputJson(tree, configFooter, flag) ==
    [footer |-> configFooter,
     show_offline_by_default |-> flag,
     servers |-> [i \in 1..Len(tree) |-> cleanNode(tree[i])]]

InitExport ==
    /\ servers = <<>>
    /\ serverTree = buildTree(<<>>)
    /\ DialogsInit
    /\ ConfigInit
    /\ WatchInit
    /\ \E n \in 0..MaxProbeLen :
          \E forest \in ServerForests(CodecLabels, n) :
              probe = <<[tree |-> forest, exported |-> FALSE, result |-> <<>>]>>

\* outputJson is computed.
CallOutputJson ==
    /\ ~probe[1].exported
    /\ probe' = <<[probe[1] EXCEPT
                     !.exported = TRUE,
                     !.result = <<outputJson(probe[1].tree, Str("new"), TRUE)>>]>>
    /\ UNCHANGED pageVars

NextExport == CallOutputJson

SpecExport == InitExport /\ [][NextExport]_vars

\* The properties that the nodes of the forest carry, at every level.
RECURSIVE KeysOf(_)
KeysOf(forest) ==
    UNION {DOMAIN forest[i] \cup KeysOf(forest[i].children) : i \in 1..Len(forest)}

\* C28: no node of outputJson.servers, at any level, carries
\* tag_color_with_hash or selectedPreset.
C28_ExportStripsUiFields ==
    (probe # <<>> /\ probe[1].exported) =>
        KeysOf(probe[1].result[1].servers) \cap {"tag_color_with_hash", "selectedPreset"} = {}

\* What outputJson gives: the forest of serverTree, node by node, with the
\* ten properties of cleanNode's object literal on every node.
ExportCopiesTree ==
    (probe # <<>> /\ probe[1].exported) =>
        /\ PathsOf(probe[1].result[1].servers) = PathsOf(probe[1].tree)
        /\ \A p \in PathsOf(probe[1].tree) :
              /\ NodeAt(probe[1].result[1].servers, p).ip = NodeAt(probe[1].tree, p).ip
              /\ NodeAt(probe[1].result[1].servers, p).tag_color_with_hash
                    = NodeAt(probe[1].tree, p).tag_color_with_hash
              /\ DOMAIN NodeAt(probe[1].result[1].servers, p)
                    = {"ip", "comment", "tag", "tag_color", "tag_color_with_hash",
                       "ignore_in_list", "children", "server_type", "parent_ip",
                       "selectedPreset"}

(***************************************************************************)
(* checkMove while an element of the root list is dragged                  *)
(***************************************************************************)
\* The root list's draggable calls checkMove while its element at position
\* fi is held over list tl; the answer is recorded.
CallCheckMove ==
    /\ PageFree
    /\ \E fi \in 1..Len(serverTree), tl \in 0..Len(serverTree) :
          probe' = <<[draggedEl |-> serverTree[fi],
                      toChildList |-> (tl # 0),
                      result |-> checkMove(serverTree[fi], tl # 0)]>>
    /\ UNCHANGED pageVars

NextMove ==
    \/ LoadConfig
    \/ ModalCancel
    \/ CallCheckMove
    \/ DragEnd

SpecMove == Init /\ [][NextMove]_vars

\* C29: checkMove returns false exactly when the dragged node has at least
\* one child and the target is a child list, true in every other case, and
\* it changes neither config nor serverTree.
C29_CheckMove ==
    [][CallCheckMove
          => /\ probe'[1].result
                   = ~(Len(probe'[1].draggedEl.children) >= 1 /\ probe'[1].toChildList)
             /\ servers' = servers
             /\ footer' = footer
             /\ showOffline' = showOffline
             /\ serverTree' = serverTree]_vars

\* C29 witness: checkMove was asked about a root with a child over a child
\* list and answered false, with the tree still holding that root.
C29_Witness ==
    /\ probe # <<>>
    /\ Len(probe[1].draggedEl.children) >= 1
    /\ probe[1].toChildList
    /\ ~probe[1].result
    /\ \E i \in 1..Len(serverTree) : serverTree[i] = probe[1].draggedEl

\* checkMove also answered true: for a childless root over a child list.
CheckMoveAllowed ==
    /\ probe # <<>>
    /\ Len(probe[1].draggedEl.children) = 0
    /\ probe[1].toChildList
    /\ probe[1].result

(***************************************************************************)
(* Self-parenting                                                          *)
(***************************************************************************)
\* The entries of list whose parent_ip is their own ip.
SelfParented(list) ==
    {i \in 1..Len(list) : Truthy(list[i].parent_ip) /\ list[i].parent_ip = list[i].ip}

\* The save is refused: an alert is shown and config.servers stays.
SaveRefused ==
    /\ isModalVisible'
    /\ modalType' = "alert"
    /\ servers' = servers

TypedIps == IPs \cup {"d"}

InitSave ==
    /\ \E list \in ProbeLists :
          /\ UniqueIps(list)
          /\ servers = list
    /\ serverTree = buildTree(servers)
    /\ DialogsInit
    /\ ConfigInit
    /\ WatchInit
    /\ probe = <<[called |-> FALSE, editingIp |-> Null, server |-> createBlankServer(""),
                  verdict |-> "", walk |-> FALSE]>>

\* The form is opened on a rendered node, ip and parentIp are entered, and
\* the validation block of saveServer runs on it; its verdict and the
\* answer of the cycle walk it would make are recorded.
CallSaveVerdict ==
    /\ ~probe[1].called
    /\ \E node \in RenderedNodes, ip \in TypedIps, parentIp \in ImportParents :
          LET server == [node EXCEPT !.ip = ip, !.parent_ip = parentIp]
          IN probe' = <<[called |-> TRUE,
                         editingIp |-> node.ip,
                         server |-> server,
                         verdict |-> SaveVerdict(servers, MODAL_MODE.EDIT, node.ip, server),
                         walk |-> checkForCircularDependency(
                                      servers, CycleSeed(node.ip, Trim(ip)), parentIp)]>>
    /\ UNCHANGED pageVars

NextSave == CallSaveVerdict

SpecSave == InitSave /\ [][NextSave]_vars

\* The form under validation renames the server to an ip no server has and
\* names as parent a server below the one under edit.
RenameBelowItself ==
    /\ probe[1].called
    /\ \A i \in 1..Len(servers) : servers[i].ip # probe[1].server.ip
    /\ \A i \in 1..Len(servers) : servers[i].parent_ip # probe[1].server.ip
    /\ Truthy(probe[1].server.parent_ip)
    /\ probe[1].server.parent_ip # probe[1].editingIp
    /\ FindIndex(servers, probe[1].editingIp) # 0
    /\ probe[1].server.parent_ip
          # servers[FindIndex(servers, probe[1].editingIp)].parent_ip
    /\ AcyclicList(servers)
    /\ probe[1].editingIp \in ChainFrom(servers, probe[1].server.parent_ip)

\* C31: an edit-mode save that changes ip and parent_ip, with a new parent
\* that is a descendant of the server under its old ip, is rejected as a
\* circular dependency, the walk being seeded with the old ip.
C31_RenameSafeCycleCheck ==
    RenameBelowItself => probe[1].verdict = "circular"

\* C31 amended: such a save is rejected; the cycle walk seeded with the old
\* ip finds the cycle, and the message is the one of the check that comes
\* first, parent-cannot-become-child, since a server with a descendant has
\* a child.
C31_RenameBelowItselfRejected ==
    RenameBelowItself =>
        /\ probe[1].walk
        /\ Len(probe[1].server.children) > 0
        /\ probe[1].verdict = "parent_child"

\* C31 witness: a is renamed to d and put below c, its grandchild.
C31_Witness ==
    /\ RenameBelowItself
    /\ probe[1].editingIp = "a"
    /\ probe[1].server.ip = "d"
    /\ probe[1].server.parent_ip = "c"
    /\ \E i, j \in 1..Len(servers) :
          /\ servers[i].ip = "c" /\ servers[i].parent_ip = "b"
          /\ servers[j].ip = "b" /\ servers[j].parent_ip = "a"
    /\ probe[1].verdict = "parent_child"

(***************************************************************************)
(* The compression of fields that hold the string "0"                      *)
(***************************************************************************)
\* Servers whose comment, tag or tag_color is the string "0".
SentinelLabels ==
    {<<"a", "0", "", "", FALSE>>, <<"b", "", "0", "", TRUE>>, <<"c", "0", "0", "0", FALSE>>}

InitSentinel ==
    /\ servers = <<>>
    /\ serverTree = buildTree(<<>>)
    /\ DialogsInit
    /\ ConfigInit
    /\ WatchInit
    /\ \E n \in 0..MaxProbeLen :
          \E forest \in ServerForests(SentinelLabels, n) :
              \E docFooter \in {Str(""), Str("0")}, flag \in BOOLEAN :
                  probe = <<[config |-> [footer |-> docFooter,
                                         show_offline_by_default |-> flag,
                                         servers |-> forest],
                             btoaText |-> <<"A", "+", "/", "=">>,
                             stage |-> "start", encodedString |-> <<>>, result |-> <<>>]>>

NextSentinel == CallCompressConfig \/ CallDecompressConfig

SpecSentinel == InitSentinel /\ [][NextSentinel]_vars

\* The configuration came back from compressConfig and decompressConfig.
CameBack == probe # <<>> /\ probe[1].stage = "decompressed" /\ probe[1].result # <<>>

\* C32: a comment, tag or footer that is the string "0" does not survive
\* the compact encoding: after encode and decode it is the empty string.
C32_SentinelCollision ==
    CameBack =>
        /\ probe[1].config.footer = Str("0") => probe[1].result[1].footer = Str("")
        /\ \A p \in PathsOf(probe[1].config.servers) :
              /\ NodeAt(probe[1].config.servers, p).comment = Str("0")
                    => NodeAt(probe[1].result[1].servers, p).comment = Str("")
              /\ NodeAt(probe[1].config.servers, p).tag = Str("0")
                    => NodeAt(probe[1].result[1].servers, p).tag = Str("")

\* C32 amended: a comment, tag or footer that is the string "0" survives
\* the compact encoding: "0" is truthy, so it is written as the string "0",
\* which JSON keeps apart from the number 0, and it is read back as "0".
C32_ZeroStringSurvives ==
    CameBack =>
        /\ probe[1].config.footer = Str("0") => probe[1].result[1].footer = Str("0")
        /\ PathsOf(probe[1].result[1].servers) = PathsOf(probe[1].config.servers)
        /\ \A p \in PathsOf(probe[1].config.servers) :
              /\ NodeAt(probe[1].config.servers, p).comment = Str("0")
                    => NodeAt(probe[1].result[1].servers, p).comment = Str("0")
              /\ NodeAt(probe[1].config.servers, p).tag = Str("0")
                    => NodeAt(probe[1].result[1].servers, p).tag = Str("0")

\* C32 witness: a configuration with footer "0" and a server with comment
\* "0" and tag "0" came back with the three of them.
C32_Witness ==
    /\ CameBack
    /\ probe[1].config.footer = Str("0")
    /\ probe[1].result[1].footer = Str("0")
    /\ \E p \in PathsOf(probe[1].config.servers) :
          /\ NodeAt(probe[1].config.servers, p).comment = Str("0")
          /\ NodeAt(probe[1].config.servers, p).tag = Str("0")
          /\ NodeAt(probe[1].result[1].servers, p).comment = Str("0")
          /\ NodeAt(probe[1].result[1].servers, p).tag = Str("0")

(***************************************************************************)
(* The loop of checkForCircularDependency, iteration by iteration          *)
(***************************************************************************)
\* A loop body that forgets to record the ip it looked at.
VisitedUnchanged(visited, currentIp) == visited

\* visited.add(currentIp)
VisitedAfter(visited, currentIp) == visited \cup {currentIp}

InitWalk ==
    /\ servers \in ProbeLists
    /\ serverTree = buildTree(servers)
    /\ DialogsInit
    /\ ConfigInit
    /\ WatchInit
    /\ \E s \in IPs, np \in ImportParents :
          probe = <<[serverIp |-> s, newParentIp |-> np, pc |-> "call",
                     currentIp |-> Null, visited |-> {}, result |-> FALSE]>>

\* The call up to the loop: the early return, or currentIp and visited are
\* initialised.
WalkEnter ==
    /\ probe[1].pc = "call"
    /\ probe' = <<IF ~Truthy(probe[1].newParentIp)
                     \/ probe[1].serverIp = probe[1].newParentIp
                  THEN [probe[1] EXCEPT !.pc = "done", !.result = FALSE]
                  ELSE [probe[1] EXCEPT !.pc = "loop",
                                        !.currentIp = probe[1].newParentIp,
                                        !.visited = {probe[1].serverIp}]>>
    /\ UNCHANGED pageVars

\* The test of the while loop and one run of its body.
WalkStep ==
    /\ probe[1].pc = "loop"
    /\ LET currentIp == probe[1].currentIp
           k == FindIndex(servers, currentIp)
       IN probe' = <<IF currentIp = Null \/ ~Truthy(currentIp)
                     THEN [probe[1] EXCEPT !.pc = "done", !.result = FALSE]
                     ELSE IF currentIp \in probe[1].visited
                     THEN [probe[1] EXCEPT !.pc = "done", !.result = TRUE]
                     ELSE [probe[1] EXCEPT
                              !.visited = VisitedAfter(probe[1].visited, currentIp),
                              !.currentIp = IF k # 0 THEN servers[k].parent_ip ELSE Null]>>
    /\ UNCHANGED pageVars

NextWalk == WalkEnter \/ WalkStep

\* The function runs to its end once called: nothing else runs meanwhile.
SpecWalk == InitWalk /\ [][NextWalk]_vars /\ WF_vars(NextWalk)

\* C33: checkForCircularDependency terminates for every pair of arguments
\* and every content of config.servers, lists with parent_ip cycles,
\* dangling parent_ip values and repeated ips included.
C33_WalkTerminates == <>(probe # <<>> /\ probe[1].pc = "done")

\* C33 witness: the call returned on a list with a cycle of two servers
\* that does not pass through serverIp, after looking at both of them.
C33_Witness ==
    /\ probe # <<>>
    /\ probe[1].pc = "done"
    /\ probe[1].result
    /\ Cardinality(probe[1].visited) = 3
    /\ \A i \in 1..Len(servers) : servers[i].ip # probe[1].serverIp
    /\ ~AcyclicList(servers)

\* The loop returns what the detector of the page returns; it looks at
\* each server of the list at most once, and at one unknown ip at most.
WalkAgrees ==
    /\ Cardinality(probe[1].visited) <= Len(servers) + 2
    /\ probe[1].pc = "done"
          => probe[1].result = checkForCircularDependency(
                                   servers, probe[1].serverIp, probe[1].newParentIp)

(***************************************************************************)
(* The servers of the forest buildTree returns                             *)
(***************************************************************************)
\* The number of nodes of the forest that carry ip.
Occurrences(tree, ip) == Cardinality({p \in PathsOf(tree) : NodeAt(tree, p).ip = ip})

\* Every server of list is in the forest once, and so in its flattening.
NoServerLost(list) ==
    /\ ~probe[1].threw
    /\ \A i \in 1..Len(list) : Occurrences(serverTree, list[i].ip) = 1
    /\ probe[1].flattened => \A i \in 1..Len(list) : HasIp(probe[1].flat, list[i].ip)

\* C34: for every flat list with unique ips, whatever its parent_ip values,
\* each server of the list appears exactly once in the forest buildTree
\* returns, so the flattening of the forest holds every server of the list.
C34_NoServerLost ==
    (probe # <<>> /\ probe[1].called /\ UniqueIps(probe[1].input))
        => NoServerLost(probe[1].input)

\* The same for the lists whose parent_ip links form no cycle and name no
\* key that map inherits.
NoServerLostWhenAcyclic ==
    (/\ probe # <<>>
     /\ probe[1].called
     /\ UniqueIps(probe[1].input)
     /\ AcyclicList(probe[1].input)
     /\ \A i \in 1..Len(probe[1].input) : probe[1].input[i].parent_ip \notin InheritedKeys)
        => NoServerLost(probe[1].input)

\* buildTree returned an empty forest for two servers that name each other
\* as parent.
CycleDropped ==
    /\ probe # <<>>
    /\ probe[1].called
    /\ ~probe[1].threw
    /\ Len(probe[1].input) = 2
    /\ UniqueIps(probe[1].input)
    /\ serverTree = <<>>

(***************************************************************************)
(* The servers offered as parents                                          *)
(***************************************************************************)
\* C35: in every reachable state potentialParentServers is exactly the
\* servers of config.servers whose parent_ip is empty, in the order of the
\* list.
C35_ParentsOffered ==
    potentialParentServers(servers) = SelectSeq(servers, LAMBDA s : ~Truthy(s.parent_ip))

\* A child that came in nested in its parent, stored as standalone the way
\* compactArrayToJson leaves it, is offered as a parent.
NestedChildOffered ==
    \E i, j \in 1..Len(servers) :
        /\ servers[i].parent_ip = servers[j].ip
        /\ servers[j].parent_ip = ""
        /\ servers[i].server_type = SERVER_TYPE.STANDALONE
        /\ \E k \in 1..Len(potentialParentServers(servers)) :
              potentialParentServers(servers)[k].ip = servers[i].ip

(***************************************************************************)
(* Edits of the form after an add was committed                            *)
(***************************************************************************)
\* The add/edit modal alone, with the edits of the form that can be made
\* while an add is saving.
NextAlias ==
    \/ AddServer
    \/ AddChildServer
    \/ CancelServerModal
    \/ SaveServer
    \/ EditCommittedForm
    \/ SaveFinish
    \/ ModalCancel

SpecAlias == Init /\ [][NextAlias]_vars

\* C36: after an add-mode saveServer has appended the new server to
\* config.servers, edits of the form data made while the modal is still
\* open change no field of the servers stored in config.servers.
C36_CommittedServerStable ==
    [][EditCommittedForm => servers' = servers]_vars

\* What such an edit does: the form data is the object that was pushed, so
\* the stored server takes the edited field, unvalidated, and no other
\* server changes.
CommittedServerFollowsForm ==
    [][EditCommittedForm
          => /\ Len(servers') = Len(servers)
             /\ servers'[aliasIdx].ip = currentServerData'[1].ip
             /\ servers'[aliasIdx].parent_ip = currentServerData'[1].parent_ip
             /\ \A i \in 1..Len(servers) : i # aliasIdx => servers'[i] = servers[i]]_vars

\* The ip typed into the form after the save is the ip of a second server:
\* the list holds an ip twice, which no save would have accepted.
CommittedDuplicate ==
    /\ savePc = "delay"
    /\ aliasIdx # 0
    /\ \E i \in 1..Len(servers) : i # aliasIdx /\ servers[i].ip = servers[aliasIdx].ip

(***************************************************************************)
(* The dialog while a clipboard write is under way                         *)
(***************************************************************************)
\* The page with the "copy import command" button: the probe holds the state
\* of the promise of navigator.clipboard.writeText.
InitPrompt ==
    /\ servers = <<>>
    /\ serverTree = buildTree(<<>>)
    /\ DialogsInit
    /\ ConfigInit
    /\ WatchInit
    /\ probe = <<[writeText |-> "idle"]>>

\* copyImportCommand up to the promise of writeText
CopyImportCommand ==
    /\ PageFree
    /\ probe[1].writeText = "idle"
    /\ probe' = <<[writeText |-> "pending"]>>
    /\ UNCHANGED pageVars

\* the promise is fulfilled: a toast
CopyResolved ==
    /\ probe[1].writeText = "pending"
    /\ probe' = <<[writeText |-> "idle"]>>
    /\ UNCHANGED pageVars

\* the promise is rejected: showAlert, whatever the page shows by then
CopyRejected ==
    /\ probe[1].writeText = "pending"
    /\ probe' = <<[writeText |-> "idle"]>>
    /\ showAlert("copy_failed")
    /\ UNCHANGED <<servers, serverTree, watchers, modalVars, cfgVars>>

NextPrompt ==
    \/ LoadConfig
    \/ RemoveServer
    \/ RemoveAllServers
    \/ LoadConfigAsk
    \/ ModalConfirm
    \/ ModalCancel
    \/ CopyImportCommand
    \/ CopyResolved
    \/ CopyRejected

SpecPrompt == InitPrompt /\ [][NextPrompt]_vars

\* The message showConfirm displays for an operation.
PromptOf(op) ==
    CASE op = "removeServer" -> "remove"
      [] op = "removeAllServers" -> "remove_all"
      [] OTHER -> "overwrite"

\* The dialog displays the prompt of the operation that awaits an answer.
OwnPromptShown ==
    /\ isModalVisible
    /\ modalType = "confirm"
    /\ modalMessage = PromptOf(pending[1].op)

\* C37: a pending showConfirm of removeServer, removeAllServers or loadConfig
\* is resolved true only by the confirm button of its own prompt: whenever
\* onModalConfirm resolves a pending operation, the dialog displayed the
\* confirmation of that operation, not an alert or another prompt.
C37_OwnConfirmation ==
    [][(pending # <<>> /\ pending' = <<>> /\ ModalConfirm) => OwnPromptShown]_vars

\* An operation awaits its answer while the dialog displays an alert.
AlertOverPrompt ==
    /\ pending # <<>>
    /\ isModalVisible
    /\ modalType = "alert"

\* An answer of false never runs the operation: onModalCancel leaves the
\* list and the settings alone, whatever the dialog displays.
CancelRunsNothing ==
    [][(pending # <<>> /\ ModalCancel) => (servers' = servers /\ footer' = footer)]_vars

\* Whenever an operation awaits an answer a dialog is displayed, so that an
\* answer of the user resolves it.
PendingHasDialog == pending # <<>> => isModalVisible

(***************************************************************************)
(* The number of watchers on config.servers                                *)
(***************************************************************************)
\* C38: at most one watcher on config.servers is active at any time,
\* whatever the number of flattenTreeAndSync calls, so that a change of
\* config.servers triggers at most one rebuild of serverTree.
C38_SingleObserver == ActiveWatchers(watchers) <= 1

\* Two watchers answer the next change of config.servers.
TwoObservers == ActiveWatchers(watchers) = 2

\* Every flattenTreeAndSync leaves one more watcher behind: the first watcher
\* is stopped by the first call, those of startWatch never are.
ObserversOnlyGrow ==
    [][/\ watchers'.rearmed >= watchers.rearmed
       /\ watchers.rearmed > 0 => ~watchers.initial]_vars

(***************************************************************************)
(* isSaving while saveServer waits                                         *)
(***************************************************************************)
\* C39: while a saveServer call is in progress, up to the end of its 200 ms
\* delay, isSaving stays true, so that a second call returns at its guard;
\* no other operation resets isSaving in between.
C39_SaveNotReentrant == savePc = "delay" => isSaving

\* The modal was closed and opened again while saveServer waits: the save
\* button is enabled although the continuation of the first call is pending.
ModalReopenedWhileSaving ==
    /\ savePc = "delay"
    /\ ~isSaving
    /\ isServerModalVisible

\* isSaving is false after every outcome of a save: it is true only while a
\* call waits in its delay.
IsSavingOnlyWhileWaiting == isSaving => savePc = "delay"

\* Only openServerModal resets isSaving while a call waits.
OnlyOpenResetsIsSaving ==
    [][(savePc = "delay" /\ savePc' = "delay" /\ isSaving /\ ~isSaving')
          => (~isServerModalVisible /\ isServerModalVisible')]_vars

(***************************************************************************)
(* The mount handler                                                       *)
(***************************************************************************)
\* What navigator.clipboard.readText() gives: a rejection, an empty string,
\* a text that is not JSON, a JSON value that is no configuration, or the
\* text of a configuration.
ClipboardDenied == [kind |-> "denied"]
ClipboardEmpty == [kind |-> "empty"]
ClipboardOtherText == [kind |-> "text"]
ClipboardOtherJson == [kind |-> "json_other"]

\* The page as it is mounted, with the query of its URL, the clipboard,
\* localStorage.getItem('theme') (<<>> for null) and the preference of the
\* browser.  isDarkMode is the ref, themeApplied tells whether applyTheme has
\* run, keydownRegistered whether handleGlobalKeydown listens.
InitMount ==
    /\ servers = <<>>
    /\ serverTree = buildTree(<<>>)
    /\ DialogsInit
    /\ ConfigInit
    /\ WatchInit
    /\ \E query \in UNION {Queries(payload) : payload \in SharedPayloads \cup BrokenPayloads},
          clipboard \in {ClipboardDenied, ClipboardEmpty, ClipboardOtherText,
                         ClipboardOtherJson}
                        \cup {JsonText(Doc(input, docFooter, TRUE)) :
                                 input \in {<<>>} \cup SingleBatches \cup RejectedBatches,
                                 docFooter \in {<<>>, <<"new">>}},
          savedTheme \in {<<>>, <<"dark">>, <<"light">>},
          prefersDark \in BOOLEAN :
          probe = <<[pc |-> "mount", query |-> query, clipboard |-> clipboard,
                     savedTheme |-> savedTheme, prefersDark |-> prefersDark,
                     isDarkMode |-> FALSE, themeApplied |-> FALSE,
                     keydownRegistered |-> FALSE]>>

\* parseAndSetConfig as the mount handler calls it on the configuration doc,
\* followed, when asked for, by the parseAndSetConfig(`{}`) of a page left
\* without servers and footer; failMessage is the alert the handler raises
\* itself after a failed import, <<>> when it raises none.
MountImport(doc, failMessage, resetWhenEmpty) ==
    LET flatServers == flattenImportedServers(doc.servers, "")
        verdict == ImportVerdict(flatServers)
        ok == verdict = "ok"
        newServers == IF ok THEN processAndValidate(flatServers) ELSE servers
        newFooter == IF ok THEN FooterOf(doc.footer) ELSE footer
        newFlag == IF ok THEN doc.show_offline_by_default ELSE showOffline
        reset == resetWhenEmpty /\ Len(newServers) = 0 /\ newFooter = ""
    IN /\ SetServers(newServers)
       /\ footer' = newFooter
       /\ showOffline' = IF reset THEN FALSE ELSE newFlag
       /\ IF ok
          THEN UNCHANGED <<isModalVisible, modalType, modalMessage, modalMessageIps>>
          ELSE /\ isModalVisible' = TRUE
               /\ modalType' = "alert"
               /\ modalMessage' = IF failMessage = <<>> THEN verdict ELSE failMessage[1]
               /\ modalMessageIps' = IF failMessage = <<>> /\ verdict = "import_duplicate"
                                     THEN DuplicateReport(flatServers) ELSE <<>>

\* The end of the handler: applyTheme with the stored or the preferred
\* theme, then addEventListener('keydown', handleGlobalKeydown).
MountCompleted(p) ==
    [p EXCEPT !.pc = "done",
              !.isDarkMode = IF p.savedTheme # <<>> THEN p.savedTheme[1] = "dark"
                             ELSE p.prefersDark,
              !.themeApplied = TRUE,
              !.keydownRegistered = TRUE]

\* A return before the end of the handler.
MountReturned(p) == [p EXCEPT !.pc = "done"]

\* onMounted up to its await: with a data parameter the import from the URL
\* and the return, else the call of readText.
MountStart ==
    /\ probe[1].pc = "mount"
    /\ LET dataFromUrl == SearchParamsGet(probe[1].query, "data")
       IN IF dataFromUrl = <<>>
          THEN /\ probe' = <<[probe[1] EXCEPT !.pc = "readText"]>>
               /\ UNCHANGED <<servers, serverTree, watchers, footer, showOffline,
                              isModalVisible, modalType, modalMessage, modalMessageIps>>
          ELSE /\ probe' = <<MountReturned(probe[1])>>
               /\ IF decompressConfig(dataFromUrl[1]) = <<>>
                  THEN /\ showAlert("url_not_decompressed")
                       /\ UNCHANGED <<servers, serverTree, watchers, footer, showOffline>>
                  ELSE /\ MountImport(DecompressedDoc(decompressConfig(dataFromUrl[1])[1]),
                                      <<"url_import_failed">>, FALSE)
    /\ UNCHANGED <<modalVars, pending, jsonInput>>

\* onMounted after readText has settled.
MountClipboard ==
    /\ probe[1].pc = "readText"
    /\ LET clipboard == probe[1].clipboard
       IN CASE clipboard.kind = "empty" ->
                 /\ probe' = <<MountReturned(probe[1])>>
                 /\ UNCHANGED <<servers, serverTree, watchers, cfgVars,
                                isModalVisible, modalType, modalMessage, modalMessageIps>>
            [] clipboard.kind = "json" ->
                 /\ probe' = <<MountCompleted(probe[1])>>
                 /\ jsonInput' = <<clipboard>>
                 /\ MountImport(clipboard.doc, <<>>, TRUE)
            [] OTHER ->
                 /\ probe' = <<MountCompleted(probe[1])>>
                 /\ jsonInput' = jsonInput
                 /\ MountImport(Doc(<<>>, <<>>, FALSE), <<>>, TRUE)
    /\ UNCHANGED <<modalVars, pending>>

NextMount ==
    \/ MountStart
    \/ MountClipboard

SpecMount == InitMount /\ [][NextMount]_vars

\* C40: on every path through the mount handler, by the time it finishes
\* the stored or preferred theme has been applied and the global keydown
\* handler is registered.
C40_MountCompletes ==
    probe[1].pc = "done" => (probe[1].themeApplied /\ probe[1].keydownRegistered)

\* The handler has returned with the theme not applied and no keydown
\* handler, after an import from the URL.
UrlImportWithoutKeydown ==
    /\ probe[1].pc = "done"
    /\ ~probe[1].keydownRegistered
    /\ Len(servers) > 0

\* The paths that reach the end of the handler: no data parameter and a
\* clipboard that is not empty.  On them the theme is the stored one, or the
\* preferred one when none is stored, and the handler is registered.
MountCompletesPastClipboard ==
    (/\ probe[1].pc = "done"
     /\ SearchParamsGet(probe[1].query, "data") = <<>>
     /\ probe[1].clipboard.kind # "empty")
       => /\ probe[1].themeApplied
          /\ probe[1].keydownRegistered
          /\ probe[1].isDarkMode = IF probe[1].savedTheme # <<>>
                                   THEN probe[1].savedTheme[1] = "dark"
                                   ELSE probe[1].prefersDark

\* Every step of the handler takes it nearer to its return: from the start
\* to the await or the return, from the await to the return.
MountAdvances ==
    [][\/ probe[1].pc = "mount" /\ probe'[1].pc \in {"readText", "done"}
       \/ probe[1].pc = "readText" /\ probe'[1].pc = "done"]_vars

====
